---- MODULE Spec2Model ----
(***************************************************************************)
(* Chunked document translation pipeline of multilang-rag-system:          *)
(*   lib/translation-cache           (src/unnamed/part_003)                *)
(*   api/documents/translate POST    (src/unnamed/part_001)                *)
(*   api/documents/download GET      (src/app/api/documents/download)      *)
(* A text is a sequence of one-character strings.  Every `await` of a      *)
(* handler ends an action; the code between two awaits is one action.      *)
(***************************************************************************)
EXTENDS Integers, Sequences, FiniteSets, TLC

VARIABLES translationCache, cacheHits, cacheMisses, req, lastOp,
          documents, document_metadata, upload

\* the Document Store: the two collections, and the upload handler's position
store == <<documents, document_metadata, upload>>

vars == <<translationCache, cacheHits, cacheMisses, req, lastOp,
          documents, document_metadata, upload>>

\* no upload request in progress
NoUpload == [pc |-> "idle", name |-> <<>>, language |-> "", chunks |-> <<>>]

\* both collections empty, no upload in progress
EmptyStore ==
  /\ documents = <<>>
  /\ document_metadata = <<>>
  /\ upload = NoUpload

(***************************************************************************)
(* Bounds of the model                                                     *)
(***************************************************************************)
\* longest small document, in chunks
MaxChunks == 3
\* direct calls of translateText
MaxUnitCalls == 3
\* direct calls of the cache module's operations
MaxCacheOps == 4

(***************************************************************************)
(* Program constants                                                       *)
(***************************************************************************)
BULK_MAX_CHUNKS == 100
DOWNLOAD_MAX_CHUNKS == 50
MAX_RETRIES == 3
maxRetries == 3
DELAY_BETWEEN_REQUESTS == 2000
CACHE_HIT_DELAY == 100
DOWNLOAD_CHUNK_DELAY == 2000
BULK_BACKOFF_STEP == 5000
DOWNLOAD_BACKOFF_STEP == 3000
MAX_CACHE_SIZE == 1000
SWEEP_SLICE == 100

(***************************************************************************)
(* Strings: trim, toLowerCase, join                                        *)
(***************************************************************************)
IsSpace(c) == c \in {" ", "\n"}

RECURSIVE TrimStart(_)
TrimStart(s) == IF s # <<>> /\ IsSpace(Head(s)) THEN TrimStart(Tail(s)) ELSE s

RECURSIVE TrimEnd(_)
TrimEnd(s) ==
  IF s # <<>> /\ IsSpace(s[Len(s)]) THEN TrimEnd(SubSeq(s, 1, Len(s) - 1)) ELSE s

Trim(s) == TrimEnd(TrimStart(s))

LowerChar(c) ==
  CASE c = "A" -> "a"
    [] c = "B" -> "b"
    [] c = "T" -> "t"
    [] OTHER -> c

ToLowerCase(s) == [k \in 1..Len(s) |-> LowerChar(s[k])]

\* Array.prototype.join: the elements lo..hi in index order, sep between neighbours
\* (split in halves, so that a long array does not nest deeply)
RECURSIVE JoinRange(_, _, _, _)
JoinRange(parts, sep, lo, hi) ==
  IF lo > hi THEN <<>>
  ELSE IF lo = hi THEN parts[lo]
  ELSE LET mid == (lo + hi) \div 2
       IN JoinRange(parts, sep, lo, mid) \o sep \o JoinRange(parts, sep, mid + 1, hi)

Separator == <<"\n", "\n">>

JoinSingleNewline(parts) == JoinRange(parts, <<"\n">>, 1, Len(parts))
JoinChunks(parts) == JoinRange(parts, Separator, 1, Len(parts))

(***************************************************************************)
(* lib/translation-cache                                                   *)
(* The Map is a sequence of entries in insertion order, one per key.       *)
(* A cache state is cs = [map, hits, misses].                              *)
(***************************************************************************)
\* createHash('md5').update(t).digest('hex'): distinct texts get distinct
\* digests, and a digest holds no hyphen
RECURSIVE Md5Hex(_)
Md5Hex(t) == IF t = <<>> THEN "" ELSE Head(t) \o Md5Hex(Tail(t))

getCacheKeyNoLanguages(text, targetLanguage, sourceLanguage) ==
  Md5Hex(ToLowerCase(Trim(text)))
getCacheKeyRaw(text, targetLanguage, sourceLanguage) ==
  sourceLanguage \o "-" \o targetLanguage \o "-" \o Md5Hex(text)
getCacheKey(text, targetLanguage, sourceLanguage) ==
  sourceLanguage \o "-" \o targetLanguage \o "-" \o Md5Hex(ToLowerCase(Trim(text)))

MapKeys(m) == {m[k].key : k \in 1..Len(m)}
MapHas(m, key) == key \in MapKeys(m)
MapIndex(m, key) == CHOOSE k \in 1..Len(m) : m[k].key = key
\* Map.get: undefined is [some |-> FALSE]
Undefined == [some |-> FALSE, v |-> <<>>]
MapGet(m, key) ==
  IF MapHas(m, key) THEN [some |-> TRUE, v |-> m[MapIndex(m, key)].value] ELSE Undefined
\* Map.set: a present key keeps its place, a new key goes last
MapSetKeepFirst(m, key, value) ==
  IF MapHas(m, key) THEN m ELSE Append(m, [key |-> key, value |-> value])
MapSetEvicting(m, key, value) ==
  IF MapHas(m, key)
  THEN [m EXCEPT ![MapIndex(m, key)].value = value]
  ELSE IF Len(m) >= MAX_CACHE_SIZE
       THEN Append(Tail(m), [key |-> key, value |-> value])
       ELSE Append(m, [key |-> key, value |-> value])
MapSet(m, key, value) ==
  IF MapHas(m, key)
  THEN [m EXCEPT ![MapIndex(m, key)].value = value]
  ELSE Append(m, [key |-> key, value |-> value])

\* JavaScript truthiness of a string-or-undefined
Truthy(opt) == opt.some /\ opt.v # <<>>

getCachedTranslationCountsBoth(cs, text, targetLanguage, sourceLanguage) ==
  LET key == getCacheKey(text, targetLanguage, sourceLanguage)
      cached == MapGet(cs.map, key)
  IN IF Truthy(cached)
     THEN [cs |-> [cs EXCEPT !.hits = @ + 1, !.misses = @ + 1], ret |-> cached]
     ELSE [cs |-> [cs EXCEPT !.misses = @ + 1], ret |-> Undefined]
getCachedTranslation(cs, text, targetLanguage, sourceLanguage) ==
  LET key == getCacheKey(text, targetLanguage, sourceLanguage)
      cached == MapGet(cs.map, key)
  IN IF Truthy(cached)
     THEN [cs |-> [cs EXCEPT !.hits = @ + 1], ret |-> cached]
     ELSE [cs |-> [cs EXCEPT !.misses = @ + 1], ret |-> Undefined]

setCachedTranslationStoresSame(cs, text, translatedText, targetLanguage, sourceLanguage) ==
  IF text = <<>> \/ translatedText = <<>>
  THEN cs
  ELSE [cs EXCEPT !.map = MapSet(@, getCacheKey(text, targetLanguage, sourceLanguage),
                                 translatedText)]
setCachedTranslation(cs, text, translatedText, targetLanguage, sourceLanguage) ==
  IF text = <<>> \/ translatedText = <<>> \/ text = translatedText
  THEN cs
  ELSE [cs EXCEPT !.map = MapSet(@, getCacheKey(text, targetLanguage, sourceLanguage),
                                 translatedText)]

getCacheStatsFraction(cs) ==
  [size |-> Len(cs.map), hits |-> cs.hits, misses |-> cs.misses,
   hitRateNum |-> IF cs.hits + cs.misses > 0 THEN cs.hits ELSE 0,
   hitRateDen |-> IF cs.hits + cs.misses > 0 THEN cs.hits + cs.misses ELSE 1]
getCacheStats(cs) ==
  [size |-> Len(cs.map), hits |-> cs.hits, misses |-> cs.misses,
   \* hitRate is a percentage; kept as the fraction hits*100 / (hits+misses)
   hitRateNum |-> IF cs.hits + cs.misses > 0 THEN cs.hits * 100 ELSE 0,
   hitRateDen |-> IF cs.hits + cs.misses > 0 THEN cs.hits + cs.misses ELSE 1]

clearCache(cs) == [map |-> <<>>, hits |-> 0, misses |-> 0]

cleanCacheIfNeededAtCeiling(cs) ==
  IF Len(cs.map) >= MAX_CACHE_SIZE
  THEN [cs EXCEPT !.map = SubSeq(@, SWEEP_SLICE + 1, Len(@))]
  ELSE cs
cleanCacheIfNeeded(cs) ==
  IF Len(cs.map) > MAX_CACHE_SIZE
  THEN [cs EXCEPT !.map = SubSeq(@, SWEEP_SLICE + 1, Len(@))]
  ELSE cs

\* the module's state as one record, and back
CacheState == [map |-> translationCache, hits |-> cacheHits, misses |-> cacheMisses]
SetCache(cs) ==
  /\ translationCache' = cs.map
  /\ cacheHits' = cs.hits
  /\ cacheMisses' = cs.misses

(***************************************************************************)
(* The translation provider (google-translate-api-x): a black box.  A call *)
(* answers with a translation, with the text unchanged, with no text, or   *)
(* throws (rate limited or any other failure).                             *)
(***************************************************************************)
RATE_LIMITED == "Too Many Requests"
OTHER_FAILURE == "ECONNRESET"

LanguageMark(lang) ==
  CASE lang = "en" -> "0"
    [] lang = "es" -> "1"
    [] OTHER -> "2"

Translation(text, targetLanguage) == <<LanguageMark(targetLanguage)>> \o text

ProviderResults(text, sourceLanguage, targetLanguage) ==
  { [kind |-> "ok", text |-> Translation(text, targetLanguage), msg |-> ""],
    [kind |-> "same", text |-> text, msg |-> ""],
    [kind |-> "empty", text |-> <<>>, msg |-> ""],
    [kind |-> "throw", text |-> <<>>, msg |-> RATE_LIMITED],
    [kind |-> "throw", text |-> <<>>, msg |-> OTHER_FAILURE] }

(***************************************************************************)
(* translateText (both route files hold the same function)                 *)
(*   Enter: from the call to the first await or to an early return         *)
(*   Resume: from the provider's answer to the return                      *)
(* st = "provider": suspended in `await translate(...)`                    *)
(* st = "resolved": returned ret;  st = "threw": rejected with msg         *)
(***************************************************************************)
translateTextSkipsNoTrim(text, targetLanguage, sourceLanguage) ==
  targetLanguage = sourceLanguage \/ text = <<>>
translateTextSkips(text, targetLanguage, sourceLanguage) ==
  targetLanguage = sourceLanguage \/ text = <<>> \/ Len(Trim(text)) = 0

translateTextEnterNoCache(cs, text, targetLanguage, sourceLanguage) ==
  IF translateTextSkips(text, targetLanguage, sourceLanguage)
  THEN [cs |-> cs, st |-> "resolved", ret |-> text, via |-> "skip"]
  ELSE [cs |-> cs, st |-> "provider", ret |-> text, via |-> "miss"]
translateTextEnter(cs, text, targetLanguage, sourceLanguage) ==
  IF translateTextSkips(text, targetLanguage, sourceLanguage)
  THEN [cs |-> cs, st |-> "resolved", ret |-> text, via |-> "skip"]
  ELSE LET got == getCachedTranslation(cs, text, targetLanguage, sourceLanguage)
       IN IF Truthy(got.ret)
          THEN [cs |-> got.cs, st |-> "resolved", ret |-> got.ret.v, via |-> "hit"]
          ELSE [cs |-> got.cs, st |-> "provider", ret |-> text, via |-> "miss"]

translateTextResumeNoStore(cs, text, targetLanguage, sourceLanguage, result) ==
  IF result.kind = "throw"
  THEN [cs |-> cs, st |-> "resolved", ret |-> text, msg |-> ""]
  ELSE IF result.text # <<>> /\ result.text # text
       THEN [cs |-> cs, st |-> "resolved", ret |-> result.text, msg |-> ""]
       ELSE [cs |-> cs, st |-> "resolved", ret |-> text, msg |-> ""]
translateTextResumeDropsText(cs, text, targetLanguage, sourceLanguage, result) ==
  IF result.kind = "throw"
  THEN [cs |-> cs, st |-> "resolved", ret |-> <<>>, msg |-> ""]
  ELSE IF result.text # <<>> /\ result.text # text
       THEN [cs |-> setCachedTranslation(cs, text, result.text, targetLanguage, sourceLanguage),
             st |-> "resolved", ret |-> result.text, msg |-> ""]
       ELSE [cs |-> cs, st |-> "resolved", ret |-> text, msg |-> ""]
translateTextResume(cs, text, targetLanguage, sourceLanguage, result) ==
  IF result.kind = "throw"
  THEN \* catch (error): the error is logged and the original text returned
       [cs |-> cs, st |-> "resolved", ret |-> text, msg |-> ""]
  ELSE IF result.text # <<>> /\ result.text # text
       THEN [cs |-> setCachedTranslation(cs, text, result.text, targetLanguage, sourceLanguage),
             st |-> "resolved", ret |-> result.text, msg |-> ""]
       ELSE [cs |-> cs, st |-> "resolved", ret |-> text, msg |-> ""]

(***************************************************************************)
(* The Document Store (read only) and the requests                         *)
(***************************************************************************)
CANARY == <<"t", "e", "s", "t">>

ChunkTexts == { <<"a">>, <<" ", "A">>, <<"b">>, <<" ">> }

RECURSIVE SeqsUpTo(_, _)
SeqsUpTo(S, n) ==
  IF n = 0 THEN {<<>>}
  ELSE LET shorter == SeqsUpTo(S, n - 1)
       IN shorter \cup {Append(q, x) : q \in {p \in shorter : Len(p) = n - 1}, x \in S}

Uniform(n) == [k \in 1..n |-> <<"a">>]

\* chunk lists as collection.find({documentId}).sort({chunkIndex: 1}) returns them:
\* every short list, and the lists at the two admission ceilings
ChunkLists ==
  SeqsUpTo(ChunkTexts, MaxChunks)
    \cup {Uniform(n) : n \in {DOWNLOAD_MAX_CHUNKS, DOWNLOAD_MAX_CHUNKS + 1,
                              BULK_MAX_CHUNKS, BULK_MAX_CHUNKS + 1}}

\* metadata.language: "" stands for an absent language
DefaultTitle == <<"d", ".", "t", "x", "t">>
Documents ==
  {[exists |-> TRUE, language |-> l, chunks |-> c, title |-> DefaultTitle] :
     l \in {"", "es"}, c \in ChunkLists}
    \cup {[exists |-> FALSE, language |-> "", chunks |-> <<>>, title |-> DefaultTitle]}

TargetLanguages == {"en", "es"}

SourceLanguageOfNoDefault(metadata) == metadata.language
SourceLanguageOf(metadata) == IF metadata.language = "" THEN "en" ELSE metadata.language

Requests == DOMAIN req

(***************************************************************************)
(* Responses: the fields of the JSON bodies and of the file responses      *)
(***************************************************************************)
\* the query string of a link to GET /api/documents/download
NoUrl ==
  [given |-> FALSE, hasDocumentId |-> FALSE, targetLanguage |-> "", format |-> "",
   skipTranslation |-> FALSE, hasContent |-> FALSE, content |-> <<>>,
   filename |-> <<>>]
\* documentId=<title>&targetLanguage=en&format=<format>&skipTranslation=true
FallbackUrl(format) ==
  [NoUrl EXCEPT !.given = TRUE, !.hasDocumentId = TRUE, !.targetLanguage = "en",
                !.format = format, !.skipTranslation = TRUE]
\* documentId=<title>&targetLanguage=<targetLanguage>&format=<format>
BinaryUrl(targetLanguage, format) ==
  [NoUrl EXCEPT !.given = TRUE, !.hasDocumentId = TRUE,
                !.targetLanguage = targetLanguage, !.format = format]
\* content=<fileContent>&filename=<translatedFileName>&contentType=...
ContentUrl(fileContent, filename) ==
  [NoUrl EXCEPT !.given = TRUE, !.hasContent = TRUE, !.content = fileContent,
                !.filename = filename]

NoPayload ==
  [errorField |-> FALSE, hasEstimate |-> FALSE, estimatedMinutes |-> 0,
   url |-> NoUrl, fileName |-> <<>>, contentTypeOf |-> "", isBinary |-> FALSE,
   hasContent |-> FALSE, content |-> <<>>, contentLength |-> 0, success |-> FALSE]

\* title.replace(/\.[^/.]+$/, ""): the last dot and what follows it go when at least
\* one character follows and none of them is a slash
RemoveExtension(title) ==
  LET dots == {k \in 1..Len(title) : title[k] = "."}
  IN IF dots = {} THEN title
     ELSE LET d == CHOOSE k \in dots : \A j \in dots : j <= k
          IN IF d < Len(title) /\ \A j \in (d + 1)..Len(title) : title[j] # "/"
             THEN SubSeq(title, 1, d - 1)
             ELSE title

\* String.prototype.toUpperCase on the language tags of the input sets
TagToUpperCase(lang) ==
  CASE lang = "xx" -> "XX"
    [] lang = "ru" -> "RU"
    [] lang = "es" -> "ES"
    [] lang = "en" -> "EN"
    [] OTHER -> lang

\* languageNames of generateDocumentResponse (10 entries) and of GET (6 entries)
BulkLanguageNames ==
  [en |-> "English", es |-> "Spanish", fr |-> "French", de |-> "German",
   it |-> "Italian", pt |-> "Portuguese", ru |-> "Russian", zh |-> "Chinese",
   ja |-> "Japanese", ko |-> "Korean"]
DownloadLanguageNames ==
  [en |-> "English", es |-> "Spanish", fr |-> "French", de |-> "German",
   it |-> "Italian", pt |-> "Portuguese"]
BulkLanguageName(targetLanguage) ==
  IF targetLanguage \in DOMAIN BulkLanguageNames
  THEN BulkLanguageNames[targetLanguage]
  ELSE TagToUpperCase(targetLanguage)
DownloadLanguageName(targetLanguage) ==
  IF targetLanguage \in DOMAIN DownloadLanguageNames
  THEN DownloadLanguageNames[targetLanguage]
  ELSE targetLanguage

\* getFileExtension of @/lib/document-generators: the extension of a format, txt for
\* a format it does not know
getFileExtension(format) ==
  CASE format \in {"txt", "json", "md", "docx", "pdf"} -> format
    [] format = "markdown" -> "md"
    [] OTHER -> "txt"

\* `${originalName}_${languageName}.${fileExtension}`, part by part
FileName(originalName, languageName, extension) ==
  <<originalName, "_", languageName, ".", extension>>

\* JSON.stringify of a string: a line feed becomes backslash n
JsonEscape(t) ==
  JoinRange([k \in 1..Len(t) |-> IF t[k] = "\n" THEN <<"\\", "n">> ELSE <<t[k]>>],
            <<>>, 1, Len(t))
\* JSON.stringify({...docMetadata, content}, null, 2)
JsonDocument(content) == <<"{docMetadata,content:">> \o JsonEscape(content) \o <<"}">>
\* the Markdown template around ${content}
MarkdownDocument(content) == <<"# title ... ## Content">> \o content \o <<"---">>

IdleRequest ==
  [pc |-> "idle", path |-> "none", chunks |-> <<>>, targetLanguage |-> "",
   sourceLanguage |-> "", skipTranslation |-> FALSE,
   i |-> 0, retryCount |-> 0, success |-> FALSE, translatedContent |-> <<>>,
   translatedChunks |-> <<>>,
   tt |-> "none", ttText |-> <<>>, ttRet |-> <<>>, ttMsg |-> "", ttVia |-> "none",
   timerKind |-> "none", timerMs |-> 0,
   status |-> "none", httpStatus |-> 0, body |-> <<>>, chunksReported |-> 0,
   \* what the request will meet: the Document Store throws, the renderer throws
   storeFails |-> FALSE, rendererFails |-> FALSE,
   \* bookkeeping for the properties (never read by the handlers)
   unitCalls |-> 0,
   calls |-> 0, probes |-> 0, probeCalls |-> 0, chunkCalls |-> 0,
   chunkRateLimited |-> 0, lastResult |-> "none", waits |-> <<>>,
   fate |-> <<>>, mapAtChunk |-> <<>>, probed |-> FALSE, probeRet |-> <<>>,
   \* pacing delays begun and elapsed, and the latest one's chunk and length
   paces |-> 0, pacesElapsed |-> 0, pacedFate |-> "none", pacedCalls |-> 0,
   \* metadata.language as the Document Store returned it
   metadataLanguage |-> "",
   \* metadata.title, the format asked for, and the fields of the response
   title |-> <<>>, format |-> "", payload |-> NoPayload,
   \* the Document Store has a metadata record for the document
   docExists |-> FALSE,
   \* the provider calls of the request that returned a text, present and different
   \* from the input: their arguments and the text returned
   okCalls |-> {},
   \* the provider calls of the request that have not been answered yet
   inFlight |-> 0,
   \* no provider call of the request has returned so far: every one that was
   \* answered threw
   allCallsFailed |-> TRUE]

\* arr[idx] = v on a JavaScript array (idx is zero-based; a hole joins as "")
ArraySetDrops(arr, idx, v) == arr
ArraySet(arr, idx, v) ==
  [k \in 1..(IF idx + 1 > Len(arr) THEN idx + 1 ELSE Len(arr)) |->
     IF k = idx + 1 THEN v ELSE IF k <= Len(arr) THEN arr[k] ELSE <<>>]

\* `await translateText(text, targetLanguage, sourceLanguage)` up to its first await
CallTranslateText(rq, cs, text, isProbe) ==
  LET e == translateTextEnter(cs, text, rq.targetLanguage, rq.sourceLanguage)
      n == IF e.st = "provider" THEN 1 ELSE 0
  IN [cs |-> e.cs,
      rq |-> [rq EXCEPT !.tt = e.st, !.ttText = text, !.ttRet = e.ret, !.ttMsg = "",
                        !.ttVia = e.via,
                        !.calls = @ + n,
                        !.inFlight = @ + n,
                        !.chunkCalls = IF isProbe THEN @ ELSE @ + n,
                        !.probeCalls = IF isProbe THEN @ + n ELSE @]]

FinishHangs(rq, status, httpStatus, body) ==
  [rq EXCEPT !.status = status, !.httpStatus = httpStatus, !.body = body,
             !.tt = "none", !.timerKind = "none", !.timerMs = 0,
             !.payload = [NoPayload EXCEPT !.errorField = (status # "complete")]]

\* every response but the complete one is a JSON body with an `error` field
Finish(rq, status, httpStatus, body) ==
  [rq EXCEPT !.pc = "done", !.status = status, !.httpStatus = httpStatus, !.body = body,
             !.tt = "none", !.timerKind = "none", !.timerMs = 0,
             !.payload = [NoPayload EXCEPT !.errorField = (status # "complete")]]

\* the handler's outer catch: a JSON body {error, details} with status 500
OuterCatchRethrows(rq) == Finish(rq, "unhandled", 0, <<>>)
OuterCatch(rq) == Finish(rq, "error", 500, <<>>)

\* generateDocumentResponse / the binary response: the joined content is handed to the
\* renderer, and the response reports chunks.length.  POST catches a throw of the
\* renderer and falls back to the plain content; in GET it reaches the outer catch.
\* generateDocumentResponse(content, metadata, targetLanguage, sourceLanguage, format,
\* chunks.length); the formats of the input sets are in lower case
generateDocumentResponsePlain(rq, content) ==
  LET name == FileName(RemoveExtension(rq.title), BulkLanguageName(rq.targetLanguage),
                       getFileExtension(rq.format))
  IN [Finish(rq, "complete", 200, content) EXCEPT
        !.chunksReported = Len(rq.chunks),
        !.payload = [NoPayload EXCEPT
                       !.success = TRUE, !.fileName = name, !.contentTypeOf = "txt",
                       !.hasContent = TRUE, !.content = content,
                       !.contentLength = Len(content),
                       !.url = ContentUrl(content, name)]]
generateDocumentResponse(rq, content) ==
  LET f == rq.format
      rendered == f \in {"docx", "pdf"} /\ ~rq.rendererFails
      fileContent == CASE f = "json" -> JsonDocument(content)
                       [] f \in {"md", "markdown"} -> MarkdownDocument(content)
                       [] OTHER -> content
      typeOf == CASE f \in {"docx", "pdf"} -> (IF rendered THEN f ELSE "txt")
                  [] f = "json" -> "json"
                  [] f \in {"md", "markdown"} -> "md"
                  [] OTHER -> "txt"
      name == FileName(RemoveExtension(rq.title), BulkLanguageName(rq.targetLanguage),
                       getFileExtension(f))
  IN [Finish(rq, "complete", 200, content) EXCEPT
        !.chunksReported = Len(rq.chunks),
        !.payload = [NoPayload EXCEPT
                       !.success = TRUE, !.fileName = name, !.contentTypeOf = typeOf,
                       !.isBinary = rendered, !.hasContent = ~rendered,
                       !.content = IF rendered THEN <<>> ELSE fileContent,
                       !.contentLength = Len(content),
                       !.url = IF rendered THEN BinaryUrl(rq.targetLanguage, f)
                               ELSE ContentUrl(fileContent, name)]]

\* GET: the rendered file as the response body, with its name and content type
BinaryResponse(rq, content) ==
  IF rq.rendererFails
  THEN OuterCatch(rq)
  ELSE [Finish(rq, "complete", 200, content) EXCEPT
          !.chunksReported = Len(rq.chunks),
          !.payload = [NoPayload EXCEPT
                         !.fileName = FileName(RemoveExtension(rq.title),
                                               DownloadLanguageName(rq.targetLanguage),
                                               rq.format),
                         !.contentTypeOf = rq.format, !.isBinary = TRUE,
                         !.contentLength = Len(content)]]

Complete(rq, content) ==
  IF rq.path = "download"
  THEN BinaryResponse(rq, content)
  ELSE generateDocumentResponse(rq, content)

\* what a request meets outside the provider
NoFaults == [idGiven |-> TRUE, storeFails |-> FALSE, rendererFails |-> FALSE]
Faults == [idGiven : BOOLEAN, storeFails : BOOLEAN, rendererFails : BOOLEAN]

(***************************************************************************)
(* The provider answers a suspended translateText, which runs to its       *)
(* return                                                                  *)
(***************************************************************************)
ResultClass(result) ==
  IF result.kind = "throw"
  THEN (IF result.msg = RATE_LIMITED THEN "rate" ELSE "other")
  ELSE result.kind

ProviderRespond(r) ==
  /\ req[r].tt = "provider"
  /\ \E result \in ProviderResults(req[r].ttText, req[r].sourceLanguage, req[r].targetLanguage) :
       LET rq == req[r]
           out == translateTextResume(CacheState, rq.ttText, rq.targetLanguage,
                                      rq.sourceLanguage, result)
       IN /\ req' = [req EXCEPT ![r] =
                       [rq EXCEPT !.tt = out.st, !.ttRet = out.ret, !.ttMsg = out.msg,
                                  !.ttVia = IF result.kind = "ok" THEN "translated" ELSE "failed",
                                  !.lastResult = ResultClass(result),
                                  !.inFlight = @ - 1,
                                  !.allCallsFailed = @ /\ result.kind = "throw",
                                  !.okCalls =
                                     IF /\ result.kind # "throw"
                                        /\ result.text # <<>> /\ result.text # rq.ttText
                                     THEN @ \cup {[text |-> rq.ttText,
                                                   targetLanguage |-> rq.targetLanguage,
                                                   sourceLanguage |-> rq.sourceLanguage,
                                                   value |-> result.text]}
                                     ELSE @,
                                  !.chunkRateLimited =
                                     IF rq.pc = "chunk" /\ ResultClass(result) = "rate"
                                     THEN @ + 1 ELSE @]]
          /\ SetCache(out.cs)
          /\ UNCHANGED <<lastOp, store>>

(***************************************************************************)
(* POST /api/documents/translate (bulk translate)                          *)
(***************************************************************************)
\* if (chunks.length === 0)
NoChunksNever(chunks) == FALSE
NoChunks(chunks) == Len(chunks) = 0

\* if (i < chunks.length - 1): chunk i is not the last one
MoreChunksButOne(i, n) == i < n - 2
MoreChunks(i, n) == i < n - 1

BulkAdmitsBelow(n) == n < BULK_MAX_CHUNKS
BulkAdmits(n) == ~(n > BULK_MAX_CHUNKS)

\* Math.ceil(chunks.length * 3 / 60), in minutes
EstimatedMinutesFloor(n) == (n * 3) \div 60
EstimatedMinutes(n) == (n * 3 + 59) \div 60

\* after the while loop: translatedChunks[i] = translatedContent, then the pacing
\* delay, or after the last chunk the join and the response
POST_AfterWhileAborts(rq, cs) ==
  IF rq.ttVia = "failed"
  THEN [cs |-> cs, rq |-> Finish([rq EXCEPT !.fate = Append(@, rq.ttVia)], "error", 500, <<>>)]
  ELSE LET stored == [rq EXCEPT !.translatedChunks = ArraySet(@, rq.i, rq.translatedContent),
                                !.fate = Append(@, rq.ttVia),
                                !.tt = "none"]
       IN IF MoreChunks(rq.i, Len(rq.chunks))
          THEN [cs |-> cs,
                rq |-> [stored EXCEPT !.pc = "timer", !.timerKind = "pacing",
                                      !.timerMs = DELAY_BETWEEN_REQUESTS,
                                      !.paces = @ + 1, !.pacedFate = rq.ttVia,
                                      !.pacedCalls = rq.chunkCalls]]
          ELSE [cs |-> cs, rq |-> Complete(stored, JoinChunks(stored.translatedChunks))]
POST_AfterWhile(rq, cs) ==
  LET stored == [rq EXCEPT !.translatedChunks = ArraySet(@, rq.i, rq.translatedContent),
                           !.fate = Append(@, rq.ttVia),
                           !.tt = "none"]
  IN IF MoreChunks(rq.i, Len(rq.chunks))
     THEN LET got == getCachedTranslation(cs, rq.chunks[rq.i + 1], rq.targetLanguage,
                                          rq.sourceLanguage)
              delayTime == IF Truthy(got.ret) THEN CACHE_HIT_DELAY ELSE DELAY_BETWEEN_REQUESTS
          IN [cs |-> got.cs,
              rq |-> [stored EXCEPT !.pc = "timer", !.timerKind = "pacing",
                                    !.timerMs = delayTime,
                                    !.paces = @ + 1, !.pacedFate = rq.ttVia,
                                    !.pacedCalls = rq.chunkCalls]]
     ELSE [cs |-> cs, rq |-> Complete(stored, JoinChunks(stored.translatedChunks))]

\* while (retryCount < MAX_RETRIES && !success) { try { await translateText(...)
POST_While(rq, cs) ==
  IF rq.retryCount < MAX_RETRIES /\ ~rq.success
  THEN CallTranslateText([rq EXCEPT !.pc = "chunk", !.timerKind = "none", !.timerMs = 0],
                         cs, rq.chunks[rq.i + 1], FALSE)
  ELSE POST_AfterWhile(rq, cs)

POST_IterationOverwrites(rq, cs, i) ==
  POST_While([rq EXCEPT !.i = i, !.translatedContent = rq.chunks[i + 1],
                        !.chunks = [@ EXCEPT ![i + 1] = <<>>],
                        !.retryCount = 0, !.success = FALSE,
                        !.chunkCalls = 0, !.chunkRateLimited = 0, !.lastResult = "none",
                        !.waits = <<>>, !.mapAtChunk = cs.map, !.ttVia = "none"], cs)

\* the head of the for body for chunk i
POST_Iteration(rq, cs, i) ==
  POST_While([rq EXCEPT !.i = i, !.translatedContent = rq.chunks[i + 1],
                        !.retryCount = 0, !.success = FALSE,
                        !.chunkCalls = 0, !.chunkRateLimited = 0, !.lastResult = "none",
                        !.waits = <<>>, !.mapAtChunk = cs.map, !.ttVia = "none"], cs)

\* from the request to the probe's translateText, or to an early response
POST_Handle(r, doc, targetLanguage, format, env) ==
  /\ req[r].pc = "idle"
  /\ LET rq0 == [req[r] EXCEPT !.path = "bulk", !.chunks = doc.chunks,
                               !.title = doc.title, !.format = format,
                               !.docExists = doc.exists,
                               !.targetLanguage = targetLanguage,
                               !.sourceLanguage = SourceLanguageOf(doc),
                               !.metadataLanguage = doc.language,
                               !.storeFails = env.storeFails,
                               !.rendererFails = env.rendererFails]
         out ==
           IF ~env.idGiven
           THEN [cs |-> CacheState, rq |-> Finish(rq0, "bad-request", 400, <<>>)]
           ELSE IF env.storeFails THEN [cs |-> CacheState, rq |-> OuterCatch(rq0)]
           ELSE IF ~doc.exists THEN [cs |-> CacheState, rq |-> Finish(rq0, "not-found", 404, <<>>)]
           ELSE IF NoChunks(doc.chunks)
           THEN [cs |-> CacheState, rq |-> Finish(rq0, "no-content", 404, <<>>)]
           ELSE IF ~BulkAdmits(Len(doc.chunks))
           THEN [cs |-> CacheState,
                 rq |-> [Finish(rq0, "too-large", 413, <<>>) EXCEPT
                           !.chunksReported = Len(doc.chunks),
                           !.payload.hasEstimate = TRUE,
                           !.payload.estimatedMinutes = EstimatedMinutes(Len(doc.chunks)),
                           !.payload.url = FallbackUrl(format)]]
           ELSE IF targetLanguage = rq0.sourceLanguage
           THEN [cs |-> CacheState, rq |-> Complete(rq0, JoinChunks(doc.chunks))]
           ELSE CallTranslateText([rq0 EXCEPT !.pc = "probe", !.probes = @ + 1],
                                  CacheState, CANARY, TRUE)
     IN /\ req' = [req EXCEPT ![r] = out.rq]
        /\ SetCache(out.cs)
        /\ UNCHANGED <<lastOp, store>>

\* { documentId, targetLanguage = "en", format = "txt" }: a request that names no format
POST_Request(r, doc, targetLanguage, env) == POST_Handle(r, doc, targetLanguage, "txt", env)

POST_Start(r, doc, targetLanguage) == POST_Request(r, doc, targetLanguage, NoFaults)

\* const testTranslation = await translateText("test", ...) has settled
ProbeUnavailableNever(testTranslation) == FALSE
ProbeUnavailable(testTranslation) == testTranslation = CANARY

POST_ProbeContinue(r) ==
  /\ req[r].pc = "probe"
  /\ req[r].tt \in {"resolved", "threw"}
  /\ LET rq == [req[r] EXCEPT !.probed = TRUE, !.probeRet = req[r].ttRet]
         out ==
           IF rq.tt = "threw"
           THEN [cs |-> CacheState, rq |-> OuterCatch(rq)]
           ELSE IF ProbeUnavailable(rq.ttRet)
           THEN [cs |-> CacheState,
                 rq |-> [Finish(rq, "unavailable", 503, <<>>) EXCEPT
                           !.chunksReported = Len(rq.chunks),
                           !.payload.url = FallbackUrl(rq.format)]]
           ELSE POST_Iteration(rq, CacheState, 0)
     IN /\ req' = [req EXCEPT ![r] = out.rq]
        /\ SetCache(out.cs)
        /\ UNCHANGED <<lastOp, store>>

\* the chunk's translateText has settled: success, or the catch block
POST_Catch(rq, cs) ==
  LET n == rq.retryCount + 1
  IN IF rq.ttMsg = RATE_LIMITED
     THEN [cs |-> cs,
           rq |-> [rq EXCEPT !.retryCount = n, !.tt = "none", !.pc = "timer",
                             !.timerKind = "backoff", !.timerMs = n * BULK_BACKOFF_STEP,
                             !.waits = Append(@, n * BULK_BACKOFF_STEP)]]
     ELSE POST_AfterWhile([rq EXCEPT !.retryCount = n], cs)

POST_ChunkContinue(r) ==
  /\ req[r].path = "bulk"
  /\ req[r].pc = "chunk"
  /\ req[r].tt \in {"resolved", "threw"}
  /\ LET rq == req[r]
         out == IF rq.tt = "threw"
                THEN POST_Catch(rq, CacheState)
                ELSE POST_While([rq EXCEPT !.translatedContent = rq.ttRet,
                                           !.success = TRUE], CacheState)
     IN /\ req' = [req EXCEPT ![r] = out.rq]
        /\ SetCache(out.cs)
        /\ UNCHANGED <<lastOp, store>>

\* a setTimeout promise has resolved: the backoff wait or the pacing delay
POST_TimerElapsed(r) ==
  /\ req[r].path = "bulk"
  /\ req[r].pc = "timer"
  /\ LET rq == req[r]
         out == IF rq.timerKind = "backoff"
                THEN POST_While(rq, CacheState)
                ELSE POST_Iteration([rq EXCEPT !.pacesElapsed = @ + 1], CacheState,
                                    rq.i + 1)
     IN /\ req' = [req EXCEPT ![r] = out.rq]
        /\ SetCache(out.cs)
        /\ UNCHANGED <<lastOp, store>>

(***************************************************************************)
(* GET /api/documents/download with documentId, targetLanguage and a       *)
(* binary format (binary download)                                         *)
(***************************************************************************)
DownloadAdmitsNone(n, skipTranslation) == FALSE
DownloadAdmitsIgnoresSkip(n, skipTranslation) == ~(n > DOWNLOAD_MAX_CHUNKS)
DownloadAdmits(n, skipTranslation) == ~(n > DOWNLOAD_MAX_CHUNKS /\ ~skipTranslation)

\* after the while loop: translatedChunks[i] = translatedContent, then the fixed delay,
\* or after the last chunk the join and the response
GET_AfterWhile(rq, cs) ==
  LET stored == [rq EXCEPT !.translatedChunks = ArraySet(@, rq.i, rq.translatedContent),
                           !.fate = Append(@, rq.ttVia),
                           !.tt = "none"]
  IN IF MoreChunks(rq.i, Len(rq.chunks))
     THEN [cs |-> cs,
           rq |-> [stored EXCEPT !.pc = "timer", !.timerKind = "pacing",
                                 !.timerMs = DOWNLOAD_CHUNK_DELAY,
                                 !.paces = @ + 1, !.pacedFate = rq.ttVia,
                                 !.pacedCalls = rq.chunkCalls]]
     ELSE [cs |-> cs, rq |-> Complete(stored, JoinChunks(stored.translatedChunks))]

\* while (retryCount < maxRetries) { try { await translateText(...)
GET_While(rq, cs) ==
  IF rq.retryCount < maxRetries
  THEN CallTranslateText([rq EXCEPT !.pc = "chunk", !.timerKind = "none", !.timerMs = 0],
                         cs, rq.chunks[rq.i + 1], FALSE)
  ELSE GET_AfterWhile(rq, cs)

GET_Iteration(rq, cs, i) ==
  GET_While([rq EXCEPT !.i = i, !.translatedContent = rq.chunks[i + 1],
                       !.retryCount = 0,
                       !.chunkCalls = 0, !.chunkRateLimited = 0, !.lastResult = "none",
                       !.waits = <<>>, !.mapAtChunk = cs.map, !.ttVia = "none"], cs)

\* env.idGiven: without documentId the request is no binary download
GET_Handle(r, doc, targetLanguage, format, skipTranslation, env) ==
  /\ req[r].pc = "idle"
  /\ env.idGiven
  /\ format \in {"pdf", "docx"}
  /\ LET rq0 == [req[r] EXCEPT !.path = "download", !.chunks = doc.chunks,
                               !.title = doc.title, !.format = format,
                               !.docExists = doc.exists,
                               !.targetLanguage = targetLanguage,
                               !.sourceLanguage = SourceLanguageOf(doc),
                               !.metadataLanguage = doc.language,
                               !.skipTranslation = skipTranslation,
                               !.storeFails = env.storeFails,
                               !.rendererFails = env.rendererFails]
         out ==
           IF env.storeFails THEN [cs |-> CacheState, rq |-> OuterCatch(rq0)]
           ELSE IF ~doc.exists THEN [cs |-> CacheState, rq |-> Finish(rq0, "not-found", 404, <<>>)]
           ELSE IF NoChunks(doc.chunks)
           THEN [cs |-> CacheState, rq |-> Finish(rq0, "no-content", 404, <<>>)]
           ELSE IF ~DownloadAdmits(Len(doc.chunks), skipTranslation)
           THEN [cs |-> CacheState,
                 rq |-> [Finish(rq0, "too-large", 413, <<>>) EXCEPT
                           !.chunksReported = Len(doc.chunks)]]
           ELSE IF skipTranslation \/ targetLanguage = rq0.sourceLanguage
           THEN [cs |-> CacheState, rq |-> Complete(rq0, JoinChunks(doc.chunks))]
           ELSE GET_Iteration(rq0, CacheState, 0)
     IN /\ req' = [req EXCEPT ![r] = out.rq]
        /\ SetCache(out.cs)
        /\ UNCHANGED <<lastOp, store>>

GET_Request(r, doc, targetLanguage, skipTranslation, env) ==
  GET_Handle(r, doc, targetLanguage, "pdf", skipTranslation, env)

GET_Start(r, doc, targetLanguage, skipTranslation) ==
  GET_Request(r, doc, targetLanguage, skipTranslation, NoFaults)

GET_Catch(rq, cs) ==
  LET n == rq.retryCount + 1
  IN IF rq.ttMsg = RATE_LIMITED
     THEN [cs |-> cs,
           rq |-> [rq EXCEPT !.retryCount = n, !.tt = "none", !.pc = "timer",
                             !.timerKind = "backoff", !.timerMs = n * DOWNLOAD_BACKOFF_STEP,
                             !.waits = Append(@, n * DOWNLOAD_BACKOFF_STEP)]]
     ELSE GET_AfterWhile([rq EXCEPT !.retryCount = n], cs)

GET_ChunkContinue(r) ==
  /\ req[r].path = "download"
  /\ req[r].pc = "chunk"
  /\ req[r].tt \in {"resolved", "threw"}
  /\ LET rq == req[r]
         out == IF rq.tt = "threw"
                THEN GET_Catch(rq, CacheState)
                ELSE \* translatedContent = ...; break
                     GET_AfterWhile([rq EXCEPT !.translatedContent = rq.ttRet], CacheState)
     IN /\ req' = [req EXCEPT ![r] = out.rq]
        /\ SetCache(out.cs)
        /\ UNCHANGED <<lastOp, store>>

GET_TimerElapsed(r) ==
  /\ req[r].path = "download"
  /\ req[r].pc = "timer"
  /\ LET rq == req[r]
         out == IF rq.timerKind = "backoff"
                THEN GET_While(rq, CacheState)
                ELSE GET_Iteration([rq EXCEPT !.pacesElapsed = @ + 1], CacheState,
                                   rq.i + 1)
     IN /\ req' = [req EXCEPT ![r] = out.rq]
        /\ SetCache(out.cs)
        /\ UNCHANGED <<lastOp, store>>

(***************************************************************************)
(* GET /api/documents/download as a whole: the binary download when the    *)
(* query names a document, a target language and the format pdf or docx,   *)
(* the text download of the given content otherwise                        *)
(***************************************************************************)
HexDigits ==
  {"0", "1", "2", "3", "4", "5", "6", "7", "8", "9",
   "a", "b", "c", "d", "e", "f", "A", "B", "C", "D", "E", "F"}
\* the character of an escape %h1h2 below 80
EscapedChar(h1, h2) ==
  CASE <<h1, h2>> = <<"2", "5">> -> "%"
    [] <<h1, h2>> = <<"2", "0">> -> " "
    [] <<h1, h2>> = <<"4", "1">> -> "A"
    [] OTHER -> "\\x" \o h1 \o h2

\* decodeURIComponent: every %h1h2 becomes its character; a % that is not followed by
\* two hexadecimal digits, or a lone escape of 80 and above, is a URIError.  (Escape
\* sequences of several bytes are not in the input sets.)
\* (a hexadecimal digit is never a %, so every % of the text begins an escape)
EscapeAt(text, k) == k >= 1 /\ k <= Len(text) /\ text[k] = "%"
WellFormedEscape(text, k) ==
  /\ k + 2 <= Len(text)
  /\ text[k + 1] \in {"0", "1", "2", "3", "4", "5", "6", "7"}
  /\ text[k + 2] \in HexDigits
decodeURIComponent(text) ==
  IF \A k \in 1..Len(text) : EscapeAt(text, k) => WellFormedEscape(text, k)
  THEN [ok |-> TRUE,
        text |-> JoinRange([k \in 1..Len(text) |->
                              IF EscapeAt(text, k)
                              THEN <<EscapedChar(text[k + 1], text[k + 2])>>
                              ELSE IF EscapeAt(text, k - 1) \/ EscapeAt(text, k - 2)
                              THEN <<>>
                              ELSE <<text[k]>>],
                           <<>>, 1, Len(text))]
  ELSE [ok |-> FALSE, text |-> <<>>]

\* "Original text download logic": url.content and url.filename are the values of
\* searchParams.get, which has decoded the query once already
GET_Text(r, url) ==
  /\ req[r].pc = "idle"
  /\ LET rq0 == [req[r] EXCEPT !.path = "text"]
         decoded == decodeURIComponent(url.content)
         rq1 == IF url.content = <<>> \/ url.filename = <<>>
                THEN Finish(rq0, "bad-request", 400, <<>>)
                ELSE IF ~decoded.ok THEN OuterCatch(rq0)
                ELSE [Finish(rq0, "complete", 200, decoded.text) EXCEPT
                        !.payload = [NoPayload EXCEPT
                                       !.fileName = url.filename,
                                       !.hasContent = TRUE,
                                       !.content = decoded.text,
                                       !.contentLength = Len(decoded.text)]]
     IN /\ req' = [req EXCEPT ![r] = rq1]
        /\ UNCHANGED <<translationCache, cacheHits, cacheMisses, lastOp, store>>

\* GET with the query string url, the Document Store holding doc under the id named
GET(r, url, doc, env) ==
  IF /\ url.hasDocumentId /\ url.targetLanguage # "" /\ url.format # ""
     /\ url.format \in {"pdf", "docx"}
  THEN GET_Handle(r, doc, url.targetLanguage, url.format, url.skipTranslation, env)
  ELSE GET_Text(r, url)

\* the document that request rq found in the Document Store
StoredDocument(rq) ==
  [exists |-> rq.docExists, language |-> rq.metadataLanguage, chunks |-> rq.chunks,
   title |-> rq.title]

\* the client of request o requests the link that the response of o carries
GET_Follow(r, o) ==
  /\ r # o
  /\ req[o].pc = "done"
  /\ req[o].payload.url.given
  /\ GET(r, req[o].payload.url, StoredDocument(req[o]), NoFaults)

(***************************************************************************)
(* Spec: one request of either entry point, from an empty cache            *)
(***************************************************************************)
NoOp ==
  [op |-> "none", text |-> <<>>, value |-> <<>>, targetLanguage |-> "",
   sourceLanguage |-> "", ret |-> Undefined, n |-> 0,
   stored |-> FALSE, storedText |-> <<>>, storedValue |-> <<>>, storedTarget |-> "",
   storedSource |-> "", overwrote |-> FALSE,
   stats |-> [size |-> 0, hits |-> 0, misses |-> 0, hitRateNum |-> 0, hitRateDen |-> 1]]

Init ==
  /\ translationCache = <<>>
  /\ cacheHits = 0
  /\ cacheMisses = 0
  /\ req = [r \in {1} |-> IdleRequest]
  /\ lastOp = NoOp
  /\ EmptyStore

PostStart == \E r \in Requests, doc \in Documents, t \in TargetLanguages : POST_Start(r, doc, t)
PostProbeContinue == \E r \in Requests : POST_ProbeContinue(r)
PostChunkContinue == \E r \in Requests : POST_ChunkContinue(r)
PostTimerElapsed == \E r \in Requests : POST_TimerElapsed(r)
GetStart ==
  \E r \in Requests, doc \in Documents, t \in TargetLanguages, skip \in BOOLEAN :
    GET_Start(r, doc, t, skip)
GetChunkContinue == \E r \in Requests : GET_ChunkContinue(r)
GetTimerElapsed == \E r \in Requests : GET_TimerElapsed(r)
ProviderAnswers == \E r \in Requests : ProviderRespond(r)

Next ==
  \/ PostStart
  \/ PostProbeContinue
  \/ PostChunkContinue
  \/ PostTimerElapsed
  \/ GetStart
  \/ GetChunkContinue
  \/ GetTimerElapsed
  \/ ProviderAnswers

Spec == Init /\ [][Next]_vars

\* SpecFair: one request for a document of a few chunks; the event loop runs every
\* continuation that is ready and fires every timer that was set, and every provider
\* call returns or fails in the end
FairChunkLists ==
  { <<>>, << <<"a">> >>, << <<"a">>, <<"b">> >>, << <<" ">>, <<"a">>, <<" ", "A">> >> }
FairDocuments ==
  {[exists |-> TRUE, language |-> "", chunks |-> c, title |-> DefaultTitle] :
     c \in FairChunkLists}
FairPostStart ==
  \E r \in Requests, doc \in FairDocuments, t \in TargetLanguages : POST_Start(r, doc, t)
FairGetStart ==
  \E r \in Requests, doc \in FairDocuments, t \in TargetLanguages, skip \in BOOLEAN :
    GET_Start(r, doc, t, skip)
NextFair ==
  \/ FairPostStart
  \/ PostProbeContinue
  \/ PostChunkContinue
  \/ PostTimerElapsed
  \/ FairGetStart
  \/ GetChunkContinue
  \/ GetTimerElapsed
  \/ ProviderAnswers
Fairness ==
  /\ WF_vars(PostProbeContinue)
  /\ WF_vars(PostChunkContinue)
  /\ WF_vars(PostTimerElapsed)
  /\ WF_vars(GetChunkContinue)
  /\ WF_vars(GetTimerElapsed)
  /\ WF_vars(ProviderAnswers)
SpecFair == Init /\ [][NextFair]_vars /\ Fairness

(***************************************************************************)
(* SpecFaults: one request of either entry point that may come without a   *)
(* documentId, meet a Document Store that throws (getDatabase, findOne,    *)
(* find) or a renderer that throws (generateDocx, generatePdf)             *)
(***************************************************************************)
FaultDocuments ==
  {d \in Documents : Len(d.chunks) < MaxChunks \/ Len(d.chunks) > BULK_MAX_CHUNKS}

FaultyPostStart ==
  \E r \in Requests, doc \in FaultDocuments, t \in TargetLanguages, env \in Faults :
    POST_Request(r, doc, t, env)
FaultyGetStart ==
  \E r \in Requests, doc \in FaultDocuments, t \in TargetLanguages, skip \in BOOLEAN,
     env \in Faults :
    GET_Request(r, doc, t, skip, env)

NextFaults ==
  \/ FaultyPostStart
  \/ PostProbeContinue
  \/ PostChunkContinue
  \/ PostTimerElapsed
  \/ FaultyGetStart
  \/ GetChunkContinue
  \/ GetTimerElapsed
  \/ ProviderAnswers

SpecFaults == Init /\ [][NextFaults]_vars

(***************************************************************************)
(* SpecFormat: one request of either entry point that names its output     *)
(* format, for documents with different titles and sizes, with a renderer  *)
(* that may throw                                                          *)
(***************************************************************************)
Formats == {"txt", "json", "md", "docx", "pdf", "xml"}
FormatTargets == {"en", "es", "ru"}
FormatTitles == { DefaultTitle, <<"a", ".", "b", ".", "c">>, <<"x", ".", "y", "/", "z">> }
FormatChunkLists ==
  { <<>>, << <<"a">> >>, << <<"a">>, <<"b">> >> }
    \cup {Uniform(n) : n \in {BULK_MAX_CHUNKS + 1, BULK_MAX_CHUNKS + 20,
                              BULK_MAX_CHUNKS + 21}}
FormatDocuments ==
  {[exists |-> TRUE, language |-> "", chunks |-> c, title |-> t] :
     c \in FormatChunkLists, t \in FormatTitles}
RendererFaults == {env \in Faults : env.idGiven /\ ~env.storeFails}

FormatPostStart ==
  \E r \in Requests, doc \in FormatDocuments, t \in FormatTargets, f \in Formats,
     env \in RendererFaults :
    POST_Handle(r, doc, t, f, env)
FormatGetStart ==
  \E r \in Requests, doc \in FormatDocuments, t \in FormatTargets, f \in Formats,
     skip \in BOOLEAN, env \in RendererFaults :
    GET_Handle(r, doc, t, f, skip, env)

NextFormat ==
  \/ FormatPostStart
  \/ PostProbeContinue
  \/ PostChunkContinue
  \/ PostTimerElapsed
  \/ FormatGetStart
  \/ GetChunkContinue
  \/ GetTimerElapsed
  \/ ProviderAnswers

SpecFormat == Init /\ [][NextFormat]_vars

(***************************************************************************)
(* SpecFollow: a bulk translate request, and then a second request that    *)
(* follows the download link of its response                               *)
(***************************************************************************)
FollowChunkLists ==
  { << <<"a">> >>, << <<"a">>, <<"%">> >>, Uniform(DOWNLOAD_MAX_CHUNKS + 1),
    Uniform(BULK_MAX_CHUNKS + 1) }
FollowDocuments ==
  {[exists |-> TRUE, language |-> l, chunks |-> c, title |-> DefaultTitle] :
     l \in {"", "es"}, c \in FollowChunkLists}

InitFollow ==
  /\ translationCache = <<>>
  /\ cacheHits = 0
  /\ cacheMisses = 0
  /\ req = [r \in {1, 2} |-> IdleRequest]
  /\ lastOp = NoOp
  /\ EmptyStore

FollowPostStart ==
  \E doc \in FollowDocuments, t \in TargetLanguages, f \in Formats :
    POST_Handle(1, doc, t, f, NoFaults)
FollowLink == GET_Follow(2, 1)

NextFollow ==
  \/ FollowPostStart
  \/ PostProbeContinue
  \/ PostChunkContinue
  \/ PostTimerElapsed
  \/ FollowLink
  \/ GetChunkContinue
  \/ GetTimerElapsed
  \/ ProviderAnswers

SpecFollow == InitFollow /\ [][NextFollow]_vars

(***************************************************************************)
(* SpecProbe: one bulk translate request on a cache that is empty or holds *)
(* what the probe of an earlier request stored: the translation of the     *)
(* canary word for the language pair en -> es                              *)
(***************************************************************************)
CanaryCached ==
  << [key |-> getCacheKey(CANARY, "es", "en"), value |-> Translation(CANARY, "es")] >>
ProbeChunkLists == { << <<"a">> >>, << <<"a">>, <<"b">> >> }
ProbeDocuments ==
  {[exists |-> TRUE, language |-> "", chunks |-> c, title |-> DefaultTitle] :
     c \in ProbeChunkLists}

InitProbe ==
  /\ translationCache \in {<<>>, CanaryCached}
  /\ cacheHits = 0
  /\ cacheMisses = 0
  /\ req = [r \in {1} |-> IdleRequest]
  /\ lastOp = NoOp
  /\ EmptyStore

ProbePostStart ==
  \E r \in Requests, doc \in ProbeDocuments, t \in TargetLanguages : POST_Start(r, doc, t)

NextProbe ==
  \/ ProbePostStart
  \/ PostProbeContinue
  \/ PostChunkContinue
  \/ PostTimerElapsed
  \/ ProviderAnswers

SpecProbe == InitProbe /\ [][NextProbe]_vars

(***************************************************************************)
(* SpecTwin: a bulk translate request and, when it has ended, a binary     *)
(* download request for the same document and target language, on a cache  *)
(* that starts empty or with entries of earlier requests                   *)
(***************************************************************************)
TwinCache ==
  << [key |-> getCacheKey(CANARY, "es", "en"), value |-> Translation(CANARY, "es")],
     [key |-> getCacheKey(<<"a">>, "es", "en"), value |-> Translation(<<"a">>, "es")] >>
TwinChunkLists ==
  { << <<"a">> >>, << <<"a">>, <<" ", "A">> >>, << <<"b">>, <<"a">> >> }
TwinDocuments ==
  {[exists |-> TRUE, language |-> "", chunks |-> c, title |-> DefaultTitle] :
     c \in TwinChunkLists}

InitTwin ==
  /\ translationCache \in {<<>>, TwinCache}
  /\ cacheHits = 0
  /\ cacheMisses = 0
  /\ req = [r \in {1, 2} |-> IdleRequest]
  /\ lastOp = NoOp
  /\ EmptyStore

TwinPostStart ==
  \E doc \in TwinDocuments, t \in TargetLanguages : POST_Start(1, doc, t)
TwinGetStart ==
  /\ req[1].pc = "done"
  /\ GET_Start(2, StoredDocument(req[1]), req[1].targetLanguage, FALSE)

NextTwin ==
  \/ TwinPostStart
  \/ PostProbeContinue
  \/ PostChunkContinue
  \/ PostTimerElapsed
  \/ TwinGetStart
  \/ GetChunkContinue
  \/ GetTimerElapsed
  \/ ProviderAnswers

SpecTwin == InitTwin /\ [][NextTwin]_vars

(***************************************************************************)
(* The upload handler (POST of app/api/query/route.ts) and the two lookups *)
(* of the pipeline in the Document Store.  The upload never deletes: it    *)
(* inserts the chunks of the file under documentId = file.name, then a new *)
(* metadata record with title = file.name.  The reads before insertMany    *)
(* (form data, language detection, embeddings) do not touch the store.     *)
(***************************************************************************)
\* uploads in one behaviour
MaxUploads == 2

FileNames == { DefaultTitle, <<"e", ".", "t", "x", "t">> }
\* chunkText(content) of the uploaded files: a file with text
UploadChunkLists == { << <<"a">> >>, << <<"a">>, <<"b">> >> }
UploadLanguages == { "es" }

\* processedChunks: one record per chunk, chunkIndex counted from 0
processedChunks(name, language, chunks) ==
  [i \in 1..Len(chunks) |->
     [documentId |-> name, chunkIndex |-> i - 1, content |-> chunks[i],
      language |-> language]]

\* up to  await collection.insertMany(processedChunks)
Upload_InsertChunks(name, language, chunks) ==
  /\ upload.pc \in {"idle", "done"}
  /\ Len(document_metadata) < MaxUploads
  /\ documents' = documents \o processedChunks(name, language, chunks)
  /\ upload' = [pc |-> "metadata", name |-> name, language |-> language,
                chunks |-> chunks]
  /\ UNCHANGED <<translationCache, cacheHits, cacheMisses, req, lastOp,
                 document_metadata>>

\* await metaCollection.insertOne({title: file.name, chunks: chunks.length, ...})
Upload_InsertMetadata ==
  /\ upload.pc = "metadata"
  /\ document_metadata' =
       Append(document_metadata,
              [title |-> upload.name, language |-> upload.language,
               chunks |-> Len(upload.chunks),
               uploadedAt |-> Len(document_metadata) + 1])
  /\ upload' = [upload EXCEPT !.pc = "done"]
  /\ UNCHANGED <<translationCache, cacheHits, cacheMisses, req, lastOp, documents>>

\* the records of collection.find({documentId}), by position in the collection
ChunkPositions(documentId) ==
  { k \in 1..Len(documents) : documents[k].documentId = documentId }

\* .sort({chunkIndex: 1}): by chunkIndex, records of one index in stored order
SortsBefore(j, k) ==
  \/ documents[j].chunkIndex < documents[k].chunkIndex
  \/ documents[j].chunkIndex = documents[k].chunkIndex /\ j < k

\* collection.find({documentId}).sort({chunkIndex: 1}).toArray()
FindChunks(documentId) ==
  LET P == ChunkPositions(documentId)
  IN [p \in 1..Cardinality(P) |->
        documents[CHOOSE j \in P : Cardinality({k \in P : SortsBefore(k, j)}) = p - 1]]

\* bulk: metadataCollection.findOne({$or: [{title: documentId}, {_id: documentId}]})
\* has no sort: any record of that title may be the one returned
BulkMetadataMatches(documentId) ==
  { k \in 1..Len(document_metadata) : document_metadata[k].title = documentId }

\* download: findOne({title: documentId, chunks: {$gt: 0}}, {sort: {uploadedAt: -1}}),
\* 0 when there is none
DownloadMetadata(documentId) ==
  LET M == { k \in 1..Len(document_metadata) :
               /\ document_metadata[k].title = documentId
               /\ document_metadata[k].chunks > 0 }
  IN IF M = {} THEN 0
     ELSE CHOOSE k \in M :
            \A j \in M : document_metadata[j].uploadedAt <= document_metadata[k].uploadedAt

\* what a handler holds after its two lookups: metadata record k (0: none) and
\* the chunks stored under the document id
LoadedDocument(k, documentId) ==
  IF k = 0
  THEN [exists |-> FALSE, language |-> "", chunks |-> <<>>, title |-> documentId]
  ELSE LET cs == FindChunks(documentId)
       IN [exists |-> TRUE, language |-> document_metadata[k].language,
           chunks |-> [p \in 1..Len(cs) |-> cs[p].content],
           title |-> document_metadata[k].title]

(***************************************************************************)
(* SpecUpload: files are uploaded, the same name possibly more than once,  *)
(* and one request of the pipeline loads a document from the store.        *)
(***************************************************************************)
InitUpload ==
  /\ translationCache = <<>>
  /\ cacheHits = 0
  /\ cacheMisses = 0
  /\ req = [r \in {1} |-> IdleRequest]
  /\ lastOp = NoOp
  /\ EmptyStore

UploadStart ==
  \E name \in FileNames, language \in UploadLanguages, chunks \in UploadChunkLists :
     Upload_InsertChunks(name, language, chunks)

UploadedPostStart ==
  \E documentId \in FileNames, t \in TargetLanguages :
    \E k \in (IF BulkMetadataMatches(documentId) = {} THEN {0}
              ELSE BulkMetadataMatches(documentId)) :
       POST_Start(1, LoadedDocument(k, documentId), t)

UploadedGetStart ==
  \E documentId \in FileNames, t \in TargetLanguages :
     GET_Start(1, LoadedDocument(DownloadMetadata(documentId), documentId), t, FALSE)

NextUpload ==
  \/ UploadStart
  \/ Upload_InsertMetadata
  \/ UploadedPostStart
  \/ PostProbeContinue
  \/ PostChunkContinue
  \/ PostTimerElapsed
  \/ UploadedGetStart
  \/ GetChunkContinue
  \/ GetTimerElapsed
  \/ ProviderAnswers

SpecUpload == InitUpload /\ [][NextUpload]_vars

(***************************************************************************)
(* SpecTranslate: translateText called directly, on any text and any       *)
(* language pair, a bounded number of times on one cache                   *)
(***************************************************************************)
UnitTexts == { <<"a">>, <<" ", "A">>, <<" ">>, <<>> }
UnitLanguages == {"en", "es"}

Unit_Call(r, text, targetLanguage, sourceLanguage) ==
  /\ req[r].pc \in {"idle", "returned"}
  /\ req[r].unitCalls < MaxUnitCalls
  /\ LET rq0 == [req[r] EXCEPT !.path = "unit", !.pc = "unit",
                               !.targetLanguage = targetLanguage,
                               !.sourceLanguage = sourceLanguage,
                               !.unitCalls = @ + 1, !.lastResult = "none"]
         out == CallTranslateText(rq0, CacheState, text, FALSE)
     IN /\ req' = [req EXCEPT ![r] = out.rq]
        /\ SetCache(out.cs)
        /\ UNCHANGED <<lastOp, store>>

Unit_Return(r) ==
  /\ req[r].pc = "unit"
  /\ req[r].tt \in {"resolved", "threw"}
  /\ req' = [req EXCEPT ![r].pc = "returned"]
  /\ UNCHANGED <<translationCache, cacheHits, cacheMisses, lastOp, store>>

UnitCall ==
  \E r \in Requests, text \in UnitTexts, t \in UnitLanguages, s \in UnitLanguages :
    Unit_Call(r, text, t, s)
UnitReturn == \E r \in Requests : Unit_Return(r)

NextTranslate == UnitCall \/ ProviderAnswers \/ UnitReturn

SpecTranslate == Init /\ [][NextTranslate]_vars

(***************************************************************************)
(* SpecCache: the cache module's operations called directly, and its       *)
(* periodic sweep                                                          *)
(***************************************************************************)
CacheTexts == { <<"a">>, <<" ", "A">>, <<>> }
CacheValues == { <<"x">>, <<"y">>, <<"a">>, <<>> }
CacheTargets == {"es", "fr"}
CacheSources == {"en"}

Cache_Get(text, targetLanguage, sourceLanguage) ==
  /\ lastOp.n < MaxCacheOps
  /\ LET got == getCachedTranslation(CacheState, text, targetLanguage, sourceLanguage)
     IN /\ SetCache(got.cs)
        /\ lastOp' = [lastOp EXCEPT !.op = "get", !.text = text, !.value = <<>>,
                                    !.targetLanguage = targetLanguage,
                                    !.sourceLanguage = sourceLanguage,
                                    !.ret = got.ret, !.n = @ + 1]
  /\ UNCHANGED <<req, store>>

\* lastOp.stored...: the arguments of the latest store that was not a no-op;
\* overwrote: that store replaced another value of the same key
Cache_Set(text, translatedText, targetLanguage, sourceLanguage) ==
  /\ lastOp.n < MaxCacheOps
  /\ LET cs == setCachedTranslation(CacheState, text, translatedText, targetLanguage,
                                    sourceLanguage)
         effective == text # <<>> /\ translatedText # <<>> /\ text # translatedText
         before == MapGet(translationCache, getCacheKey(text, targetLanguage, sourceLanguage))
     IN /\ SetCache(cs)
        /\ lastOp' = [lastOp EXCEPT !.op = "set", !.text = text, !.value = translatedText,
                                    !.targetLanguage = targetLanguage,
                                    !.sourceLanguage = sourceLanguage,
                                    !.ret = Undefined, !.n = @ + 1,
                                    !.stored = IF effective THEN TRUE ELSE @,
                                    !.storedText = IF effective THEN text ELSE @,
                                    !.storedValue = IF effective THEN translatedText ELSE @,
                                    !.storedTarget = IF effective THEN targetLanguage ELSE @,
                                    !.storedSource = IF effective THEN sourceLanguage ELSE @,
                                    !.overwrote =
                                       IF effective
                                       THEN before.some /\ before.v # translatedText
                                       ELSE @]
  /\ UNCHANGED <<req, store>>

Cache_Stats ==
  /\ lastOp.n < MaxCacheOps
  /\ lastOp' = [lastOp EXCEPT !.op = "stats", !.n = @ + 1, !.ret = Undefined,
                              !.stats = getCacheStats(CacheState)]
  /\ UNCHANGED <<translationCache, cacheHits, cacheMisses, req, store>>

Cache_Clear ==
  /\ lastOp.n < MaxCacheOps
  /\ SetCache(clearCache(CacheState))
  /\ lastOp' = [lastOp EXCEPT !.op = "clear", !.n = @ + 1, !.ret = Undefined,
                              !.stored = FALSE, !.overwrote = FALSE]
  /\ UNCHANGED <<req, store>>

\* setInterval(cleanCacheIfNeeded, 60000): the timer fires
Cache_Sweep ==
  /\ lastOp.n < MaxCacheOps
  /\ LET cs == cleanCacheIfNeeded(CacheState)
         kept == MapHas(cs.map, getCacheKey(lastOp.storedText, lastOp.storedTarget,
                                            lastOp.storedSource))
     IN /\ SetCache(cs)
        /\ lastOp' = [lastOp EXCEPT !.op = "sweep", !.n = @ + 1, !.ret = Undefined,
                                    !.stored = @ /\ kept, !.overwrote = @ /\ kept]
  /\ UNCHANGED <<req, store>>

CacheGet ==
  \E text \in CacheTexts, t \in CacheTargets, s \in CacheSources : Cache_Get(text, t, s)
CacheSet ==
  \E text \in CacheTexts, v \in CacheValues, t \in CacheTargets, s \in CacheSources :
    Cache_Set(text, v, t, s)

NextCache == CacheGet \/ CacheSet \/ Cache_Stats \/ Cache_Clear \/ Cache_Sweep

SpecCache == Init /\ [][NextCache]_vars

(***************************************************************************)
(* SpecPairs: the cache module called with language tags that contain a    *)
(* hyphen, as a caller may pass them (targetLanguage is taken from the     *)
(* request as it is)                                                       *)
(***************************************************************************)
PairTexts == { <<"a">>, <<"A">> }
PairValues == { <<"x">> }
PairSources == {"zh-CN", "zh"}
PairTargets == {"en", "CN-en"}

PairGet ==
  \E text \in PairTexts, t \in PairTargets, s \in PairSources : Cache_Get(text, t, s)
PairSet ==
  \E text \in PairTexts, v \in PairValues, t \in PairTargets, s \in PairSources :
    Cache_Set(text, v, t, s)

NextPairs == PairGet \/ PairSet

SpecPairs == Init /\ [][NextPairs]_vars

(***************************************************************************)
(* SpecSweep: the cache module around its size limit.  The initial cache   *)
(* is the Map after n stores of n different texts (for es, from en), n at  *)
(* the limit or above it: the sweep runs once a minute, however many       *)
(* stores have happened since.                                             *)
(***************************************************************************)
Digit(d) == <<"0", "1", "2", "3", "4", "5", "6", "7", "8", "9">>[d + 1]
\* the k-th text stored
FillText(k) ==
  <<"#", Digit(k \div 1000), Digit((k \div 100) % 10), Digit((k \div 10) % 10),
    Digit(k % 10)>>
FillKey(k) == getCacheKey(FillText(k), "es", "en")
Filled(n) ==
  [k \in 1..n |-> [key |-> FillKey(k), value |-> Translation(FillText(k), "es")]]
FillSizes ==
  { MAX_CACHE_SIZE, MAX_CACHE_SIZE + 1, MAX_CACHE_SIZE + SWEEP_SLICE,
    MAX_CACHE_SIZE + SWEEP_SLICE + 1 }

InitSweep ==
  /\ translationCache \in {Filled(n) : n \in FillSizes}
  /\ cacheHits = 0
  /\ cacheMisses = 0
  /\ req = [r \in {1} |-> IdleRequest]
  /\ lastOp = NoOp
  /\ EmptyStore

\* the oldest stored text and a text never stored
SweepTexts == { FillText(1), <<"n">> }
SweepValues == { <<"x">>, <<"y">> }

SweepGet == \E text \in SweepTexts : Cache_Get(text, "es", "en")
SweepSet == \E text \in SweepTexts, v \in SweepValues : Cache_Set(text, v, "es", "en")

NextSweep == SweepGet \/ SweepSet \/ Cache_Stats \/ Cache_Clear \/ Cache_Sweep

SpecSweep == InitSweep /\ [][NextSweep]_vars

(***************************************************************************)
(* SpecConcurrent: two requests in flight on the one cache of the module,  *)
(* interleaved at every await, with the timer of cleanCacheIfNeeded firing *)
(* in between; the cache is empty or holds, above its size limit, the      *)
(* entries of earlier requests, the oldest one for the text "a"            *)
(***************************************************************************)
Preloaded ==
  << [key |-> getCacheKey(<<"a">>, "es", "en"), value |-> Translation(<<"a">>, "es")] >>
    \o Filled(MAX_CACHE_SIZE)
ConcurrentChunkLists == { << <<"a">> >>, << <<" ", "A">>, <<"a">> >> }
ConcurrentDocuments ==
  {[exists |-> TRUE, language |-> "", chunks |-> c, title |-> DefaultTitle] :
     c \in ConcurrentChunkLists}
ConcurrentTargets == {"es", "ru"}

InitConcurrent ==
  /\ translationCache = Preloaded
  /\ cacheHits = 0
  /\ cacheMisses = 0
  /\ req = [r \in {1, 2} |-> IdleRequest]
  /\ lastOp = NoOp
  /\ EmptyStore

\* a bulk translate request and a binary download request
ConcurrentPostStart ==
  \E doc \in ConcurrentDocuments, t \in ConcurrentTargets :
    POST_Handle(1, doc, t, "txt", NoFaults)
ConcurrentGetStart ==
  \E doc \in ConcurrentDocuments, t \in ConcurrentTargets :
    GET_Handle(2, doc, t, "pdf", FALSE, NoFaults)

\* the callback of setInterval(cleanCacheIfNeeded, 60000)
TimerSweep ==
  /\ SetCache(cleanCacheIfNeeded(CacheState))
  /\ UNCHANGED <<req, lastOp, store>>

NextConcurrent ==
  \/ ConcurrentPostStart
  \/ PostProbeContinue
  \/ PostChunkContinue
  \/ PostTimerElapsed
  \/ ConcurrentGetStart
  \/ GetChunkContinue
  \/ GetTimerElapsed
  \/ ProviderAnswers
  \/ TimerSweep

SpecConcurrent == InitConcurrent /\ [][NextConcurrent]_vars

(***************************************************************************)
(* Properties                                                              *)
(***************************************************************************)
\* the chunk of request rq at zero-based index i has left the retry loop and its
\* output is recorded (the state between two chunks, or the end of the request)
ChunkRecorded(rq) ==
  /\ rq.path \in {"bulk", "download"}
  /\ rq.pc \in {"timer", "done"}
  /\ Len(rq.fate) = rq.i + 1
  /\ (rq.pc = "timer" => rq.timerKind = "pacing")

\* body is parts[1] sep parts[2] sep ... parts[n], stated position by position
PartSpan(parts, j) == Len(parts[j]) + 2
Offset(parts, k) ==
  Cardinality(UNION {{<<j, p>> : p \in 1..PartSpan(parts, j)} : j \in 1..(k - 1)})
IsJoined(body, parts) ==
  IF parts = <<>> THEN body = <<>>
  ELSE /\ Len(body) = Offset(parts, Len(parts)) + Len(parts[Len(parts)])
       /\ \A k \in 1..Len(parts) :
            LET o == Offset(parts, k)
            IN /\ \A p \in 1..Len(parts[k]) : body[o + p] = parts[k][p]
               /\ k < Len(parts) =>
                    /\ body[o + Len(parts[k]) + 1] = "\n"
                    /\ body[o + Len(parts[k]) + 2] = "\n"

SameNormalized(a, b) == ToLowerCase(Trim(a)) = ToLowerCase(Trim(b))

\* what chunk k of the request may come out as, by what happened to it
OutputsOf(rq, k) ==
  CASE rq.fate[k] \in {"skip", "failed"} -> {rq.chunks[k]}
    [] rq.fate[k] = "translated" -> {Translation(rq.chunks[k], rq.targetLanguage)}
    [] rq.fate[k] = "hit" ->
         {Translation(c, rq.targetLanguage) :
            c \in {x \in {rq.chunks[j] : j \in 1..(k - 1)} \cup {CANARY} :
                     SameNormalized(x, rq.chunks[k])}}
    [] OTHER -> {}

\* the request went through the chunk loop (it was not served from the original
\* content because of the same language or of skipTranslation)
Translating(rq) ==
  /\ rq.path \in {"bulk", "download"}
  /\ rq.targetLanguage # rq.sourceLanguage
  /\ ~rq.skipTranslation

\* C1: the body of every complete result is the chunks' outputs in input order, one
\* per chunk, joined by a blank line, whatever happened to each chunk (cache hit,
\* translation, failure), on the bulk-translate and on the binary-download path.
C1_OrderPreserved ==
  \A r \in Requests :
    LET rq == req[r]
    IN (rq.path \in {"bulk", "download"} /\ rq.status = "complete") =>
         IF Translating(rq)
         THEN /\ Len(rq.translatedChunks) = Len(rq.chunks)
              /\ Len(rq.fate) = Len(rq.chunks)
              /\ \A k \in 1..Len(rq.chunks) : rq.translatedChunks[k] \in OutputsOf(rq, k)
              /\ IsJoined(rq.body, rq.translatedChunks)
         ELSE IsJoined(rq.body, rq.chunks)

C1_Witness ==
  \E r \in Requests :
    /\ req[r].path = "bulk"
    /\ req[r].status = "complete"
    /\ req[r].chunks = << <<"a">>, <<"b">>, <<" ", "A">> >>
    /\ req[r].fate = <<"translated", "failed", "hit">>
    /\ req[r].body = <<"1", "a", "\n", "\n", "b", "\n", "\n", "1", "a">>

\* C2: a failing chunk never aborts the request: once the chunk loop has started the
\* request ends complete, each failed chunk's output is its original content and each
\* translated chunk's output is the provider's translation; a binary download of a
\* document that has chunks and is within the ceiling always ends complete.
C2_DegradeNotAbort ==
  \A r \in Requests :
    LET rq == req[r]
    IN /\ (rq.path \in {"bulk", "download"} /\ Len(rq.fate) > 0) =>
            /\ rq.status \in {"none", "complete"}
            /\ Len(rq.translatedChunks) = Len(rq.fate)
            /\ \A k \in 1..Len(rq.fate) :
                 /\ rq.fate[k] = "failed" => rq.translatedChunks[k] = rq.chunks[k]
                 /\ rq.fate[k] = "translated" =>
                      rq.translatedChunks[k] = Translation(rq.chunks[k], rq.targetLanguage)
            /\ rq.pc = "done" => Len(rq.fate) = Len(rq.chunks)
       /\ (rq.path = "download" /\ rq.pc = "done" /\ Len(rq.chunks) >= 1
             /\ Len(rq.chunks) <= DOWNLOAD_MAX_CHUNKS) => rq.status = "complete"

C2_Witness ==
  \E r \in Requests :
    /\ req[r].path = "bulk"
    /\ req[r].status = "complete"
    /\ req[r].chunks = << <<"a">>, <<"b">>, <<"b">> >>
    /\ req[r].fate = <<"translated", "failed", "translated">>
    /\ req[r].translatedChunks = << <<"1", "a">>, <<"b">>, <<"1", "b">> >>

\* the probe of a bulk request found the provider available
ProbePassed(rq) == rq.probed /\ rq.probeRet # CANARY

\* what both readings of the admission boundary share: a document with exactly the
\* ceiling number of chunks is admitted and succeeds, and a bulk request for
\* ceiling+1 chunks is rejected before any provider call
AdmissionAtCeiling(rq) ==
  /\ (rq.path = "bulk" /\ Len(rq.chunks) = BULK_MAX_CHUNKS) =>
        /\ rq.status # "too-large"
        /\ (rq.pc = "done" /\ (ProbePassed(rq) \/ ~Translating(rq))) => rq.status = "complete"
  /\ (rq.path = "download" /\ Len(rq.chunks) = DOWNLOAD_MAX_CHUNKS) =>
        /\ rq.status # "too-large"
        /\ rq.pc = "done" => rq.status = "complete"
  /\ (rq.path = "bulk" /\ Len(rq.chunks) = BULK_MAX_CHUNKS + 1) =>
        /\ rq.pc = "done" /\ rq.status = "too-large"
        /\ rq.calls = 0 /\ cacheHits + cacheMisses = 0

\* C3 as stated: on each entry point a document of ceiling+1 chunks yields too-large
\* with zero provider calls (100 for bulk translate, 50 for binary download), and a
\* document of exactly the ceiling is admitted and succeeds.
C3_AsStated ==
  \A r \in Requests :
    LET rq == req[r]
    IN /\ AdmissionAtCeiling(rq)
       /\ (rq.path = "download" /\ Len(rq.chunks) = DOWNLOAD_MAX_CHUNKS + 1) =>
             /\ rq.pc = "done" /\ rq.status = "too-large"
             /\ rq.calls = 0

\* C3 (amended): as stated, except that a binary download with skipTranslation set is
\* never rejected: a document of ceiling+1 chunks then comes back complete with its
\* original content, still with zero provider calls.
C3_AdmissionBoundary ==
  \A r \in Requests :
    LET rq == req[r]
    IN /\ AdmissionAtCeiling(rq)
       /\ (rq.path = "download" /\ Len(rq.chunks) = DOWNLOAD_MAX_CHUNKS + 1) =>
             /\ rq.pc = "done" /\ rq.calls = 0
             /\ ~rq.skipTranslation => rq.status = "too-large"
             /\ rq.skipTranslation =>
                  rq.status = "complete" /\ IsJoined(rq.body, rq.chunks)

C3_Witness ==
  \E r \in Requests :
    /\ req[r].path = "bulk"
    /\ Len(req[r].chunks) = BULK_MAX_CHUNKS
    /\ req[r].status = "complete"
    /\ Len(req[r].translatedChunks) = BULK_MAX_CHUNKS
    /\ req[r].calls > 1

\* the request was admitted and asks for a translation: the handler went past the
\* admission check and the same-language check
AdmittedForTranslation(rq) ==
  /\ Translating(rq)
  /\ rq.pc # "idle"
  /\ rq.status \notin {"not-found", "no-content", "too-large"}

\* C4 as stated: on every entry point the availability probe runs exactly once for a
\* document that passed admission and whose target language differs from its source.
C4_AsStated ==
  \A r \in Requests : AdmittedForTranslation(req[r]) => req[r].probes = 1

\* C4 (amended): on the bulk-translate path the probe runs exactly once for such a
\* document and settles before any chunk is translated; if it reports unavailable the
\* result is unavailable, no chunk-level provider call is made and no chunk is
\* processed.  The binary-download path runs no probe.
C4_ProbeGate ==
  \A r \in Requests :
    LET rq == req[r]
    IN /\ rq.path = "bulk" =>
            /\ rq.probes <= 1 /\ rq.probeCalls <= 1
            /\ AdmittedForTranslation(rq) => rq.probes = 1
            /\ ~rq.probed =>
                 /\ rq.pc \in {"idle", "probe", "done"}
                 /\ rq.fate = <<>> /\ rq.translatedChunks = <<>>
                 /\ rq.calls = rq.probeCalls
            /\ (rq.probed /\ rq.probeRet = CANARY) =>
                 /\ rq.pc = "done" /\ rq.status = "unavailable"
                 /\ rq.calls = rq.probeCalls
                 /\ rq.fate = <<>> /\ rq.translatedChunks = <<>>
            /\ rq.status = "unavailable" => rq.probed /\ rq.probeRet = CANARY
       /\ rq.path = "download" => rq.probes = 0 /\ rq.status # "unavailable"

C4_Witness ==
  \E r \in Requests :
    /\ req[r].path = "bulk"
    /\ Len(req[r].chunks) = 3
    /\ req[r].status = "unavailable"
    /\ req[r].probes = 1 /\ req[r].probeCalls = 1 /\ req[r].calls = 1
    /\ req[r].lastResult = "rate"

\* the provider answered rate-limited on every call made for the recorded chunk
AlwaysRateLimited(rq) ==
  ChunkRecorded(rq) /\ rq.chunkCalls >= 1 /\ rq.chunkRateLimited = rq.chunkCalls

\* C5: when the provider answers rate-limited on every call for a chunk, exactly 3
\* provider attempts are made for it, with waits of 1 x base and 2 x base between
\* them, and the chunk then falls back to its original text.
C5_AsStated ==
  \A r \in Requests :
    LET rq == req[r]
    IN AlwaysRateLimited(rq) =>
         /\ rq.chunkCalls = 3
         /\ Len(rq.waits) >= 2 /\ rq.waits[1] > 0 /\ rq.waits[2] = 2 * rq.waits[1]
         /\ rq.translatedChunks[rq.i + 1] = rq.chunks[rq.i + 1]

\* C6: the wait before retry k of a rate-limited chunk is k x 2000 ms in bulk
\* translate and k x 3000 ms in binary download.
C6_AsStated ==
  \A r \in Requests :
    LET rq == req[r]
    IN AlwaysRateLimited(rq) =>
         /\ Len(rq.waits) >= 1
         /\ \A k \in 1..Len(rq.waits) :
              rq.waits[k] = k * (IF rq.path = "bulk" THEN 2000 ELSE 3000)

\* C7: a provider failure other than rate-limited is not retried: one provider call for
\* the chunk, the output is the original text, the cache holds what it held when the
\* chunk began, and the loop goes on to the pacing delay or to the complete result.
C7_NoRetryOnOtherFailure ==
  \A r \in Requests :
    LET rq == req[r]
    IN (ChunkRecorded(rq) /\ rq.lastResult = "other") =>
         /\ rq.chunkCalls = 1
         /\ rq.retryCount = 0 /\ rq.waits = <<>>
         /\ rq.translatedChunks[rq.i + 1] = rq.chunks[rq.i + 1]
         /\ translationCache = rq.mapAtChunk
         /\ IF rq.i < Len(rq.chunks) - 1
            THEN rq.pc = "timer" /\ rq.status = "none"
            ELSE rq.pc = "done" /\ rq.status = "complete"

C7_Witness ==
  \E r \in Requests :
    /\ ChunkRecorded(req[r])
    /\ req[r].lastResult = "other"
    /\ req[r].i = 1
    /\ req[r].pc = "timer"
    /\ req[r].fate = <<"translated", "failed">>
    /\ Len(req[r].chunks) = 3

\* translateText was called in this step
Called(r) == req[r].pc # "unit" /\ req'[r].pc = "unit"

WhiteSpaceOnly(text) == \A k \in 1..Len(text) : text[k] \in {" ", "\n"}

\* C8: translateText(text, L, L), and translateText of an empty or whitespace-only
\* text, returns text exactly, makes no provider call and leaves the cache entries and
\* both counters unchanged.
C8_NoOpTranslation ==
  [][\A r \in Requests :
       (Called(r) /\ (req'[r].targetLanguage = req'[r].sourceLanguage
                        \/ WhiteSpaceOnly(req'[r].ttText))) =>
          /\ req'[r].tt = "resolved"
          /\ req'[r].ttRet = req'[r].ttText
          /\ req'[r].calls = req[r].calls
          /\ UNCHANGED <<translationCache, cacheHits, cacheMisses>>]_vars

C8_Witness ==
  \E r \in Requests :
    /\ req[r].pc = "unit" /\ req[r].tt = "resolved"
    /\ req[r].ttText = <<"a">> /\ req[r].ttRet = <<"a">>
    /\ req[r].targetLanguage = "es" /\ req[r].sourceLanguage = "es"
    /\ translationCache # <<>>
    /\ req[r].calls = 1 /\ req[r].unitCalls = 2

\* C9: when the cache holds an entry for (normalized text, source, target),
\* translateText returns the cached value at once: no provider call, the cache
\* entries unchanged.
C9_CacheHitReturns ==
  [][\A r \in Requests :
       LET key == getCacheKey(req'[r].ttText, req'[r].targetLanguage, req'[r].sourceLanguage)
       IN (Called(r) /\ req'[r].targetLanguage # req'[r].sourceLanguage
             /\ ~WhiteSpaceOnly(req'[r].ttText) /\ MapHas(translationCache, key)) =>
            /\ req'[r].tt = "resolved"
            /\ req'[r].ttRet = MapGet(translationCache, key).v
            /\ req'[r].calls = req[r].calls
            /\ translationCache' = translationCache]_vars

C9_Witness ==
  \E r \in Requests :
    /\ req[r].pc = "unit" /\ req[r].tt = "resolved" /\ req[r].ttVia = "hit"
    /\ req[r].ttText = <<" ", "A">> /\ req[r].ttRet = <<"1", "a">>
    /\ req[r].calls = 1 /\ req[r].unitCalls = 2

\* the latest call is a lookup with the arguments of the latest effective store
LookupOfStored ==
  /\ lastOp.op = "get" /\ lastOp.stored
  /\ lastOp.text = lastOp.storedText
  /\ lastOp.targetLanguage = lastOp.storedTarget
  /\ lastOp.sourceLanguage = lastOp.storedSource

\* C10: a lookup after a store of (text, v, source, target), text and v non-empty and
\* different, returns exactly v; after a second store of another value for the same
\* key it returns that value; and a key never has more than one entry.
C10_CacheRoundTrip ==
  /\ Cardinality(MapKeys(translationCache)) = Len(translationCache)
  /\ LookupOfStored => lastOp.ret = [some |-> TRUE, v |-> lastOp.storedValue]

C10_Witness ==
  /\ LookupOfStored
  /\ lastOp.overwrote
  /\ lastOp.ret = [some |-> TRUE, v |-> <<"y">>]
  /\ Len(translationCache) = 1

(***************************************************************************)
(* The cache module, call by call (SpecCache)                              *)
(***************************************************************************)
\* the step is one call of the named operation
CallOf(op) == lastOp'.op = op /\ lastOp'.n = lastOp.n + 1

\* the arguments of a store that the guard of setCachedTranslation rejects
RejectedStore(text, translatedText) ==
  text = <<>> \/ translatedText = <<>> \/ text = translatedText

\* C11: a store whose text equals its translatedText, or whose text or translatedText
\* is empty, changes nothing: the entries (so the size) and both counters are as before.
C11_StoreNoOp ==
  [][(CallOf("set") /\ RejectedStore(lastOp'.text, lastOp'.value))
       => UNCHANGED <<translationCache, cacheHits, cacheMisses>>]_vars

C11_Witness ==
  /\ lastOp.op = "set"
  /\ lastOp.text = <<"a">> /\ lastOp.value = <<"a">>
  /\ lastOp.stored /\ lastOp.storedText = <<" ", "A">>
  /\ Len(translationCache) = 1

\* C12: a lookup adds 1 to exactly one counter, hits when it returns an entry and
\* misses when it returns none, leaves the other counter and the entries as they
\* were, and starts no provider call.
C12_LookupCounts ==
  [][CallOf("get")
       => /\ translationCache' = translationCache
          /\ req' = req
          /\ IF lastOp'.ret.some
             THEN cacheHits' = cacheHits + 1 /\ cacheMisses' = cacheMisses
             ELSE cacheMisses' = cacheMisses + 1 /\ cacheHits' = cacheHits]_vars

C12_Witness ==
  /\ lastOp.op = "get" /\ lastOp.ret.some
  /\ cacheHits = 1 /\ cacheMisses = 1
  /\ Len(translationCache) = 1

\* the statistics record was returned by the latest call
StatsReturned == lastOp.op = "stats"

\* C13 as stated: hitRate is the fraction hits / (hits + misses), between 0 and 1
C13_AsStated ==
  StatsReturned
    => /\ lastOp.stats.size = Len(translationCache)
       /\ lastOp.stats.hits = cacheHits /\ lastOp.stats.misses = cacheMisses
       /\ lastOp.stats.hitRateNum * (cacheHits + cacheMisses)
            = cacheHits * lastOp.stats.hitRateDen
       /\ 0 <= lastOp.stats.hitRateNum
       /\ lastOp.stats.hitRateNum <= lastOp.stats.hitRateDen

\* C13: stats() returns the number of entries as size, the two counters as hits and
\* misses, and hitRate as the percentage 100 * hits / (hits + misses), or 0 before
\* any lookup: hitRate * (hits + misses) = 100 * hits and 0 <= hitRate <= 100.
C13_StatsPercentage ==
  StatsReturned
    => /\ lastOp.stats.size = Len(translationCache)
       /\ lastOp.stats.hits = cacheHits /\ lastOp.stats.misses = cacheMisses
       /\ lastOp.stats.hitRateDen > 0
       /\ lastOp.stats.hitRateNum * (cacheHits + cacheMisses)
            = 100 * cacheHits * lastOp.stats.hitRateDen
       /\ (cacheHits + cacheMisses = 0 => lastOp.stats.hitRateNum = 0)
       /\ 0 <= lastOp.stats.hitRateNum
       /\ lastOp.stats.hitRateNum <= 100 * lastOp.stats.hitRateDen

C13_Witness ==
  /\ StatsReturned
  /\ cacheHits = 1 /\ cacheMisses = 1
  /\ lastOp.stats.size = 1
  /\ lastOp.stats.hitRateNum = 50 * lastOp.stats.hitRateDen

\* what a lookup in the map m would return
LookupResult(m, text, targetLanguage, sourceLanguage) ==
  getCachedTranslation([map |-> m, hits |-> 0, misses |-> 0], text, targetLanguage,
                       sourceLanguage).ret

\* C14: a lookup of a text that equals the stored text after trimming and case
\* folding, for the same (source, target) pair, returns the stored value; a store
\* for one target language changes the result of no lookup for another target
\* language, and a store under a pair that has no entry for the text adds an entry.
C14_KeyDerivation ==
  [][/\ (/\ lastOp'.op = "get" /\ lastOp'.stored
         /\ SameNormalized(lastOp'.text, lastOp'.storedText)
         /\ lastOp'.targetLanguage = lastOp'.storedTarget
         /\ lastOp'.sourceLanguage = lastOp'.storedSource)
          => lastOp'.ret = [some |-> TRUE, v |-> lastOp'.storedValue]
     /\ CallOf("set")
          => \A text \in CacheTexts, t \in CacheTargets \ {lastOp'.targetLanguage},
                s \in CacheSources :
               LookupResult(translationCache', text, t, s)
                 = LookupResult(translationCache, text, t, s)
     /\ (/\ CallOf("set")
         /\ ~RejectedStore(lastOp'.text, lastOp'.value)
         /\ ~LookupResult(translationCache, lastOp'.text, lastOp'.targetLanguage,
                          lastOp'.sourceLanguage).some)
          => Len(translationCache') = Len(translationCache) + 1]_vars

\* "a" is stored for es and for fr; the lookup of " A" for es returns the es value
C14_Witness ==
  /\ lastOp.op = "get" /\ lastOp.stored
  /\ lastOp.text = <<" ", "A">> /\ lastOp.targetLanguage = "es"
  /\ lastOp.storedText = <<"a">> /\ lastOp.storedTarget = "fr"
  /\ lastOp.ret = [some |-> TRUE, v |-> <<"x">>]
  /\ Len(translationCache) = 2

(***************************************************************************)
(* The cache module around its size limit (SpecSweep)                      *)
(***************************************************************************)
\* the oldest of the stored texts that still has an entry.  Only FillText(1) is ever
\* stored again; after its eviction (FillText(2) went with it) a new store makes it
\* the newest entry, no longer the oldest.
OldestFill(m) ==
  LET keys == MapKeys(m)
      present == {k \in 2..(MAX_CACHE_SIZE + SWEEP_SLICE + 1) : FillKey(k) \in keys}
  IN IF FillKey(2) \in keys
     THEN 1
     ELSE CHOOSE k \in present : \A j \in present : k <= j

KeyOrder(m) == [j \in 1..Len(m) |-> m[j].key]

EvictingSweep == CallOf("sweep") /\ Len(translationCache) > MAX_CACHE_SIZE

\* no counter goes down and no key loses its entry, except in an evicting sweep
MonotoneStep ==
  /\ cacheHits' >= cacheHits
  /\ cacheMisses' >= cacheMisses
  /\ EvictingSweep \/ MapKeys(translationCache) \subseteq MapKeys(translationCache')

\* C16 as stated: over lookup, store, stats, clear and sweeps alike
C16_AsStated == [][MonotoneStep]_vars

\* C16: over lookups, stores, stats calls and sweeps the two counters never decrease
\* and a key loses its entry only in a sweep that finds more than 1000 entries;
\* clear() removes every entry and sets both counters to 0.
C16_MonotoneExceptClear ==
  [][IF CallOf("clear")
     THEN translationCache' = <<>> /\ cacheHits' = 0 /\ cacheMisses' = 0
     ELSE MonotoneStep]_vars

C16_Witness ==
  /\ lastOp.op = "sweep"
  /\ cacheHits = 1 /\ cacheMisses = 1
  /\ lastOp.stored /\ lastOp.storedText = <<"n">>
  /\ ~MapHas(translationCache, FillKey(SWEEP_SLICE))
  /\ Len(translationCache) = MAX_CACHE_SIZE + 1 - SWEEP_SLICE

\* C17: immediately after every sweep the cache holds at most 1000 entries
C17_AsStated == lastOp.op = "sweep" => Len(translationCache) <= MAX_CACHE_SIZE

(***************************************************************************)
(* The outcomes of a request (SpecFaults)                                  *)
(***************************************************************************)
StatusCode(status) ==
  CASE status = "complete" -> 200
    [] status = "bad-request" -> 400
    [] status \in {"no-content", "not-found"} -> 404
    [] status = "too-large" -> 413
    [] status = "unavailable" -> 503
    [] OTHER -> 500

\* C18 as stated, the absent document counted with no-content: every request ends
\* complete, unavailable, too-large or no-content
C18_AsStated ==
  \A r \in Requests :
    req[r].pc = "done"
      => req[r].status \in {"complete", "unavailable", "too-large", "no-content",
                            "not-found"}

\* C18: every request ends in exactly one structured response: complete, unavailable,
\* too-large, no-content or not-found, bad-request (no documentId), or error (status
\* 500); error only when the Document Store throws or, on the binary download, the
\* renderer throws, never for a failure of the provider; a throw of the renderer on
\* bulk translate still ends complete.
C18_StructuredOutcomes ==
  \A r \in Requests :
    LET rq == req[r]
    IN /\ rq.tt # "threw"
       /\ rq.pc = "done"
            => /\ rq.status \in {"complete", "unavailable", "too-large", "no-content",
                                 "not-found", "bad-request", "error"}
               /\ rq.httpStatus = StatusCode(rq.status)
               /\ rq.status = "error"
                    => rq.storeFails \/ (rq.path = "download" /\ rq.rendererFails)
               /\ (rq.path = "bulk" /\ ~rq.storeFails)
                    => rq.status # "error"

\* a binary download whose last provider call was rate limited and whose renderer
\* threw: the response is the 500 of the outer catch
C18_Witness ==
  \E r \in Requests :
    /\ req[r].pc = "done" /\ req[r].path = "download"
    /\ req[r].status = "error" /\ req[r].httpStatus = 500
    /\ req[r].rendererFails /\ ~req[r].storeFails
    /\ req[r].lastResult = "rate"
    /\ Len(req[r].fate) = 2

(***************************************************************************)
(* Pacing of the chunk loop (Spec)                                         *)
(***************************************************************************)
\* C19: in the chunk loop of n >= 1 chunks, chunk i (counted from 0) is started when
\* exactly i pacing delays have begun and all of them have elapsed, a pacing delay
\* follows every chunk but the last, and the loop ends after exactly n - 1 delays.
C19_PacingDelays ==
  \A r \in Requests :
    LET rq == req[r]
        n == Len(rq.chunks)
    IN rq.path \in {"bulk", "download"}
         => /\ rq.pacesElapsed <= rq.paces
            /\ n >= 1 => rq.paces <= n - 1
            /\ rq.pc = "chunk"
                 => rq.paces = rq.i /\ rq.pacesElapsed = rq.i
            /\ (rq.pc = "timer" /\ rq.timerKind = "pacing")
                 => rq.i < n - 1 /\ rq.paces = rq.i + 1 /\ rq.pacesElapsed = rq.i
            /\ (rq.pc = "done" /\ rq.status = "complete" /\ rq.fate # <<>>)
                 => rq.paces = n - 1 /\ rq.pacesElapsed = n - 1

C19_Witness ==
  \E r \in Requests :
    /\ req[r].pc = "done" /\ req[r].status = "complete"
    /\ req[r].path = "download"
    /\ Len(req[r].chunks) = 3 /\ Len(req[r].fate) = 3
    /\ req[r].paces = 2 /\ req[r].pacesElapsed = 2

\* a pacing delay is running after the chunk whose outcome is pacedFate
Pacing(rq) == rq.pc = "timer" /\ rq.timerKind = "pacing"

\* C20: the pacing delay after a non-final chunk is 100 ms exactly when the chunk was
\* served from the cache with no provider call, and 2000 ms or more whenever a
\* provider call was made for the chunk, whether it succeeded or failed.
C20_AsStated ==
  \A r \in Requests :
    Pacing(req[r])
      => /\ req[r].timerMs = CACHE_HIT_DELAY
              <=> (req[r].pacedFate = "hit" /\ req[r].pacedCalls = 0)
         /\ req[r].pacedCalls >= 1 => req[r].timerMs >= DELAY_BETWEEN_REQUESTS

(***************************************************************************)
(* Early answers of the two handlers (Spec)                                *)
(***************************************************************************)
\* the request passed the size check of its entry point
Admitted(rq) ==
  /\ Len(rq.chunks) >= 1
  /\ \/ rq.path = "bulk" /\ Len(rq.chunks) <= BULK_MAX_CHUNKS
     \/ rq.path = "download"
          /\ (Len(rq.chunks) <= DOWNLOAD_MAX_CHUNKS \/ rq.skipTranslation)

\* the target language is the document's language, "en" when the metadata has none
SameLanguage(rq) ==
  rq.targetLanguage = (IF rq.metadataLanguage = "" THEN "en" ELSE rq.metadataLanguage)

\* C21: an admitted request whose target language is the document's source language
\* (metadata language, "en" by default) is answered at once with the original chunk
\* contents joined in index order by a blank line: no probe, no provider call, no
\* cache lookup and no pacing delay.
C21_SameLanguageShortCircuit ==
  \A r \in Requests :
    LET rq == req[r]
    IN (rq.path \in {"bulk", "download"} /\ Admitted(rq) /\ SameLanguage(rq))
         => /\ rq.pc = "done" /\ rq.status = "complete"
            /\ IsJoined(rq.body, rq.chunks)
            /\ rq.chunksReported = Len(rq.chunks)
            /\ rq.probes = 0 /\ rq.calls = 0 /\ rq.paces = 0
            /\ cacheHits = 0 /\ cacheMisses = 0 /\ translationCache = <<>>

\* an English target for a document whose metadata names no language
C21_Witness ==
  \E r \in Requests :
    /\ req[r].path = "bulk" /\ req[r].status = "complete"
    /\ req[r].metadataLanguage = "" /\ req[r].targetLanguage = "en"
    /\ req[r].chunks = << <<"a">>, <<" ", "A">>, <<"b">> >>
    /\ req[r].body = <<"a", "\n", "\n", " ", "A", "\n", "\n", "b">>

(***************************************************************************)
(* What the responses carry (SpecFormat)                                   *)
(***************************************************************************)
\* the link leads to the original document: it names the document and asks for no
\* translation
FetchesOriginal(url) == url.given /\ url.hasDocumentId /\ url.skipTranslation

\* C22 as stated: every too-large rejection, of bulk translate and of binary download
\* alike, carries the chunk count, an estimated time and the fallback link
C22_AsStated ==
  \A r \in Requests :
    req[r].status = "too-large"
      => /\ req[r].chunksReported = Len(req[r].chunks)
         /\ req[r].payload.hasEstimate
         /\ FetchesOriginal(req[r].payload.url)

\* C22: a too-large rejection of bulk translate carries the chunk count n, the
\* estimate of ceil(3n / 60) minutes (the least m with 3n <= 60m, so never smaller
\* for a larger n) and a link to the untranslated original; a too-large rejection of
\* binary download carries the chunk count only, no estimate and no link.
C22_TooLargePayload ==
  \A r \in Requests :
    LET rq == req[r]
        n == Len(rq.chunks)
        m == rq.payload.estimatedMinutes
    IN rq.status = "too-large"
         => /\ rq.chunksReported = n
            /\ rq.payload.errorField
            /\ rq.path = "bulk"
                 => /\ rq.payload.hasEstimate
                    /\ 3 * n <= 60 * m /\ 60 * (m - 1) < 3 * n
                    /\ FetchesOriginal(rq.payload.url)
            /\ rq.path = "download"
                 => ~rq.payload.hasEstimate /\ ~rq.payload.url.given

\* 121 chunks: the first size with an estimate of 7 minutes
C22_Witness ==
  \E r \in Requests :
    /\ req[r].status = "too-large" /\ req[r].path = "bulk"
    /\ req[r].chunksReported = BULK_MAX_CHUNKS + 21
    /\ req[r].payload.estimatedMinutes = 7
    /\ req[r].payload.url.format = "md"

\* the Document Store returned zero chunks for a document it has
ZeroChunks(rq) ==
  /\ rq.path \in {"bulk", "download"}
  /\ rq.docExists /\ Len(rq.chunks) = 0

\* C23 as stated: no-content is not an error outcome
C23_AsStated ==
  \A r \in Requests :
    ZeroChunks(req[r])
      => /\ req[r].status = "no-content"
         /\ ~req[r].payload.errorField /\ req[r].httpStatus < 400
         /\ req[r].calls = 0

\* C23: a request for a document that exists and has zero chunks is answered at once
\* with the outcome no-content, an error response (status 404, a body with an error
\* field), without a probe, a provider call or a cache lookup.
C23_NoContent ==
  \A r \in Requests :
    ZeroChunks(req[r])
      => /\ req[r].pc = "done" /\ req[r].status = "no-content"
         /\ req[r].httpStatus = 404 /\ req[r].payload.errorField
         /\ ~req[r].payload.success
         /\ req[r].calls = 0 /\ req[r].probes = 0
         /\ cacheHits = 0 /\ cacheMisses = 0

C23_Witness ==
  \E r \in Requests :
    /\ ZeroChunks(req[r]) /\ req[r].path = "bulk"
    /\ req[r].targetLanguage = "es" /\ req[r].metadataLanguage = ""
    /\ req[r].status = "no-content"

(***************************************************************************)
(* translateText and the cache (SpecTranslate)                             *)
(***************************************************************************)
\* C24: when translateText has returned after a successful provider call, the cache
\* holds the returned text under the call's key; a later translateText of a text with
\* the same normalized form, for the same language pair, makes no provider call and
\* returns that text.
C24_StoredBeforeReturn ==
  [][\A r \in Requests :
       /\ req'[r].tt = "resolved"
            => \A c \in req'[r].okCalls :
                 LookupResult(translationCache', c.text, c.targetLanguage,
                              c.sourceLanguage) = [some |-> TRUE, v |-> c.value]
       /\ Called(r)
            => \A c \in req[r].okCalls :
                 (/\ SameNormalized(c.text, req'[r].ttText)
                  /\ c.targetLanguage = req'[r].targetLanguage
                  /\ c.sourceLanguage = req'[r].sourceLanguage)
                   => /\ req'[r].tt = "resolved"
                      /\ req'[r].ttRet = c.value
                      /\ req'[r].calls = req[r].calls]_vars

\* "a" was translated by the provider; the later call for " A" is served the same text
C24_Witness ==
  \E r \in Requests :
    /\ req[r].pc = "returned" /\ req[r].unitCalls = 2 /\ req[r].calls = 1
    /\ req[r].okCalls = {[text |-> <<"a">>, targetLanguage |-> "es",
                          sourceLanguage |-> "en", value |-> <<"1", "a">>]}
    /\ req[r].ttText = <<" ", "A">> /\ req[r].ttRet = <<"1", "a">>

(***************************************************************************)
(* The complete result of bulk translate (SpecFormat)                      *)
(***************************************************************************)
CompleteBulk(rq) == rq.pc = "done" /\ rq.status = "complete" /\ rq.path = "bulk"
TextLike == {"txt", "json", "md"}

\* the claim as stated: for a text-like format the content returned is the joined body
C25_AsStated ==
  \A r \in Requests :
    LET rq == req[r]
    IN (CompleteBulk(rq) /\ rq.format \in TextLike) =>
         /\ rq.chunksReported = Len(rq.chunks)
         /\ rq.payload.hasContent /\ rq.payload.content = rq.body

\* C25: a complete result of bulk translate for a document of n chunks reports n
\* chunks and the length of the joined body, with a file name and a download link;
\* a response that is not binary returns the body itself (txt and unknown formats) or
\* the JSON / Markdown document that wraps it, a binary one returns no content; when
\* the provider translated every chunk the body is its translations joined with two
\* newlines.
C25_CompleteResult ==
  \A r \in Requests :
    LET rq == req[r]
        pl == rq.payload
    IN CompleteBulk(rq) =>
         /\ rq.chunksReported = Len(rq.chunks)
         /\ pl.success /\ ~pl.errorField
         /\ pl.contentLength = Len(rq.body)
         /\ pl.fileName # <<>> /\ pl.url.given
         /\ pl.isBinary = ~pl.hasContent
         /\ pl.isBinary = (rq.format \in {"docx", "pdf"} /\ ~rq.rendererFails)
         /\ pl.isBinary => pl.url = BinaryUrl(rq.targetLanguage, rq.format)
         /\ pl.hasContent =>
              /\ pl.url = ContentUrl(pl.content, pl.fileName)
              /\ pl.content = CASE rq.format = "json" -> JsonDocument(rq.body)
                                [] rq.format = "md" -> MarkdownDocument(rq.body)
                                [] OTHER -> rq.body
         /\ (/\ Translating(rq)
             /\ \A k \in 1..Len(rq.chunks) : rq.fate[k] = "translated")
              => IsJoined(rq.body,
                          [k \in 1..Len(rq.chunks) |->
                             Translation(rq.chunks[k], rq.targetLanguage)])

\* two chunks, both translated by the provider, returned as a JSON document
C25_Witness ==
  \E r \in Requests :
    /\ CompleteBulk(req[r]) /\ req[r].format = "json"
    /\ req[r].chunks = << <<"a">>, <<"b">> >> /\ req[r].targetLanguage = "es"
    /\ req[r].fate = <<"translated", "translated">>
    /\ req[r].body = <<"1", "a", "\n", "\n", "1", "b">>
    /\ req[r].payload.content # req[r].body
    /\ req[r].chunksReported = 2

(***************************************************************************)
(* The derived file name (SpecFormat)                                      *)
(***************************************************************************)
\* C26: on bulk translate and on binary download the file name of a complete result is
\* the title without its last extension, an underscore, the display name of the target
\* language, a dot and the extension of the requested format.
C26_AsStated ==
  \A r \in Requests :
    LET rq == req[r]
    IN (rq.pc = "done" /\ rq.status = "complete" /\ rq.path \in {"bulk", "download"})
         => rq.payload.fileName =
              <<RemoveExtension(rq.title), "_", BulkLanguageName(rq.targetLanguage),
                ".", getFileExtension(rq.format)>>

(***************************************************************************)
(* Unknown formats and renderer failures (SpecFormat)                      *)
(***************************************************************************)
KnownFormats == {"txt", "json", "md", "markdown", "docx", "pdf"}

\* the request came as far as the rendering of its joined body
ReachedRendering(rq) ==
  /\ rq.pc = "done" /\ rq.path \in {"bulk", "download"}
  /\ rq.status \in {"complete", "error"} /\ ~rq.storeFails

\* C27: a request with an unknown output format ends complete with the joined body
\* unchanged as its content, and a request whose renderer fails for a known format
\* ends complete with the plain-text body instead of failing.
C27_AsStated ==
  \A r \in Requests :
    LET rq == req[r]
    IN /\ (ReachedRendering(rq) /\ rq.format \notin KnownFormats)
            => /\ rq.status = "complete"
               /\ rq.payload.hasContent /\ rq.payload.content = rq.body
       /\ (ReachedRendering(rq) /\ rq.format \in {"docx", "pdf"} /\ rq.rendererFails)
            => /\ rq.status = "complete"
               /\ rq.path = "bulk"
                    => /\ rq.payload.hasContent /\ rq.payload.content = rq.body
                       /\ rq.payload.contentTypeOf = "txt"

(***************************************************************************)
(* The fallback link of a rejection (SpecFollow)                           *)
(***************************************************************************)
\* C28: every unavailable and every too-large rejection of bulk translate carries a
\* fallback link, and the request of that link to the download endpoint ends complete
\* with the original chunks joined in order, with no provider call, whatever output
\* format the rejected request named.
C28_AsStated ==
  (req[1].pc = "done" /\ req[1].status \in {"unavailable", "too-large"})
    => /\ req[1].payload.url.given
       /\ req[2].pc = "done"
            => /\ req[2].status = "complete"
               /\ req[2].body = JoinChunks(req[1].chunks)
               /\ req[2].calls = 0

(***************************************************************************)
(* Requests in flight together (SpecConcurrent)                            *)
(***************************************************************************)
\* some store call of a request wrote this entry: the provider returned the value for
\* a text and a language pair that have the entry's key
WrittenByStore(entry) ==
  \E r \in Requests : \E c \in req[r].okCalls :
    /\ entry.key = getCacheKey(c.text, c.targetLanguage, c.sourceLanguage)
    /\ entry.value = c.value

\* out is a translation of a text with the normalized form of text, made for the
\* language pair: by a provider call of one of the requests, or by the call of an
\* earlier request whose entry the cache held at the start
TranslationFor(out, text, targetLanguage, sourceLanguage) ==
  \/ \E r \in Requests : \E c \in req[r].okCalls :
       /\ SameNormalized(c.text, text)
       /\ c.targetLanguage = targetLanguage /\ c.sourceLanguage = sourceLanguage
       /\ c.value = out
  \/ /\ Preloaded[1].key = getCacheKey(text, targetLanguage, sourceLanguage)
     /\ Preloaded[1].value = out

\* C29: with two requests in flight, interleaved at every await and with the sweep,
\* every cache entry is an entry the cache started with or holds a value that a store
\* call wrote for exactly its key, and every chunk output of a request is the chunk's
\* original text or a translation of its normalized text for the request's language
\* pair.
C29_CacheNotCorrupted ==
  /\ \A i \in 1..Len(translationCache) :
       \/ i <= Len(Preloaded) /\ translationCache[i] = Preloaded[i]
       \/ /\ i + SWEEP_SLICE <= Len(Preloaded)
          /\ translationCache[i] = Preloaded[i + SWEEP_SLICE]
       \/ WrittenByStore(translationCache[i])
  /\ \A r \in Requests :
       \A k \in 1..Len(req[r].translatedChunks) :
         \/ req[r].translatedChunks[k] = req[r].chunks[k]
         \/ TranslationFor(req[r].translatedChunks[k], req[r].chunks[k],
                           req[r].targetLanguage, req[r].sourceLanguage)

\* after the sweep both requests missed on the same key and both called the provider,
\* for " A" and for "a"; the later store replaced the value of the earlier one, and
\* the bulk request took its second chunk, "a", from the cache
C29_Witness ==
  /\ Len(translationCache) < MAX_CACHE_SIZE
  /\ [text |-> <<" ", "A">>, targetLanguage |-> "es", sourceLanguage |-> "en",
      value |-> <<"1", " ", "A">>] \in req[1].okCalls
  /\ [text |-> <<"a">>, targetLanguage |-> "es", sourceLanguage |-> "en",
      value |-> <<"1", "a">>] \in req[2].okCalls
  /\ MapGet(translationCache, getCacheKey(<<"a">>, "es", "en"))
       = [some |-> TRUE, v |-> <<"1", "a">>]
  /\ req[1].pc = "done" /\ req[1].fate = <<"translated", "hit">>
  /\ req[1].translatedChunks = << <<"1", " ", "A">>, <<"1", "a">> >>

(***************************************************************************)
(* The chunk loop is sequential (Spec)                                     *)
(***************************************************************************)
\* C30: within one request at most one provider call is in flight at any time, and
\* while chunk i (counted from 0) is being translated the outcomes of exactly the
\* chunks before it are recorded: the translation of chunk i + 1 starts only after
\* the outcome of chunk i is recorded, and the call in flight is the one for chunk i.
C30_SequentialLoop ==
  \A r \in Requests :
    LET rq == req[r]
    IN rq.path \in {"bulk", "download"} =>
         /\ rq.inFlight \in {0, 1}
         /\ rq.inFlight = 1 <=> rq.tt = "provider"
         /\ (rq.pc = "chunk" \/ (rq.pc = "timer" /\ rq.timerKind = "backoff")) =>
              /\ rq.i < Len(rq.chunks)
              /\ Len(rq.fate) = rq.i
              /\ Len(rq.translatedChunks) = rq.i
              /\ rq.pacesElapsed = rq.i
              /\ rq.tt = "provider" => rq.ttText = rq.chunks[rq.i + 1]
         /\ (rq.pc = "timer" /\ rq.timerKind = "pacing") =>
              /\ rq.inFlight = 0
              /\ Len(rq.translatedChunks) = rq.i + 1

\* the provider call for the third chunk is in flight; the first chunk was translated
\* and the second one failed, both are recorded
C30_Witness ==
  \E r \in Requests :
    /\ req[r].path = "bulk" /\ req[r].pc = "chunk" /\ req[r].tt = "provider"
    /\ req[r].i = 2 /\ req[r].inFlight = 1
    /\ req[r].fate = <<"translated", "failed">>
    /\ Len(req[r].translatedChunks) = 2
    /\ req[r].calls = 4

C32_AsStated ==
  \A r \in Requests :
    LET rq == req[r]
    IN (/\ rq.path = "bulk" /\ rq.pc = "done" /\ Translating(rq)
        /\ rq.calls >= 1 /\ rq.allCallsFailed)
         => rq.status = "unavailable"

(***************************************************************************)
(* Bulk translate and binary download side by side (SpecTwin)              *)
(***************************************************************************)
\* the chunk came out as a translation, from the provider or from the cache
GotTranslation(f) == f \in {"translated", "hit"}
SameOutcomes(b, d) ==
  /\ Len(b.fate) = Len(d.fate)
  /\ \A k \in 1..Len(b.fate) : GotTranslation(b.fate[k]) = GotTranslation(d.fate[k])

\* the claim as stated, for the provider that fails every call of both requests (the
\* cache is then the same for both): same outcome status and same joined body
C33_AsStated ==
  (/\ req[1].pc = "done" /\ req[2].pc = "done"
   /\ req[1].allCallsFailed /\ req[2].allCallsFailed)
    => /\ req[1].status = req[2].status
       /\ req[1].body = req[2].body

\* C33: for a document admitted by both entry points, binary download always ends
\* complete; bulk translate ends unavailable exactly when its probe, which binary
\* download does not have, returned the canary word, and complete otherwise; when it
\* is complete and the two requests got a translation for the same chunks, the two
\* joined bodies are equal.
C33_SameLoopAfterProbe ==
  LET b == req[1]
      d == req[2]
  IN (b.pc = "done" /\ d.pc = "done") =>
       /\ d.status = "complete" /\ d.probes = 0
       /\ b.status \in {"complete", "unavailable"}
       /\ b.status = "unavailable" <=> (Translating(b) /\ b.probeRet = CANARY)
       /\ (b.status = "complete" /\ SameOutcomes(b, d)) => b.body = d.body

\* bulk translate had "a" translated by the provider and took " A" from the cache,
\* binary download took both from the cache: the same body
C33_Witness ==
  /\ req[1].pc = "done" /\ req[2].pc = "done"
  /\ req[1].fate = <<"translated", "hit">> /\ req[2].fate = <<"hit", "hit">>
  /\ req[1].status = "complete" /\ req[2].status = "complete"
  /\ req[1].body = <<"1", "a", "\n", "\n", "1", "a">>
  /\ req[2].body = req[1].body

(***************************************************************************)
(* skipTranslation (Spec)                                                  *)
(***************************************************************************)
\* C34: a binary download with skipTranslation=true of a document with chunks, however
\* many, is answered at once with the original chunk contents joined in index order
\* by "\n\n": it is never rejected as too large and makes no provider call, no cache
\* lookup, no cache store and no pacing delay.
C34_SkipTranslationBypass ==
  \A r \in Requests :
    LET rq == req[r]
    IN (/\ rq.path = "download" /\ rq.skipTranslation
        /\ rq.docExists /\ Len(rq.chunks) >= 1)
         => /\ rq.pc = "done" /\ rq.status = "complete"
            /\ IsJoined(rq.body, rq.chunks)
            /\ rq.calls = 0 /\ rq.fate = <<>>
            /\ cacheHits + cacheMisses = 0 /\ translationCache = <<>>
            /\ rq.paces = 0 /\ rq.waits = <<>>

\* a document above both ceilings, asked for in another language than its own
C34_Witness ==
  \E r \in Requests :
    /\ req[r].path = "download" /\ req[r].skipTranslation
    /\ Len(req[r].chunks) = BULK_MAX_CHUNKS + 1
    /\ req[r].targetLanguage # req[r].sourceLanguage
    /\ req[r].status = "complete"
    /\ Len(req[r].body) = 3 * BULK_MAX_CHUNKS + 1

(***************************************************************************)
(* Termination and the number of provider calls (SpecFair)                 *)
(***************************************************************************)
\* the calls of the request so far are within 1 + 3n on bulk translate, 3n on binary
\* download, and at most 3 for one chunk
CallsWithinBounds ==
  \A r \in Requests :
    LET rq == req[r]
        n == Len(rq.chunks)
    IN /\ rq.path = "bulk" =>
            /\ rq.calls <= 1 + MAX_RETRIES * n
            /\ rq.probeCalls <= 1
       /\ rq.path = "download" => rq.calls <= maxRetries * n
       /\ rq.path \in {"bulk", "download"} =>
            /\ rq.chunkCalls <= MAX_RETRIES
            /\ rq.retryCount <= MAX_RETRIES

\* C35: when every provider call returns or fails in the end, every request of bulk
\* translate or binary download ends with a response; a request for a document of n
\* chunks makes at most 1 + 3n provider calls on bulk translate and at most 3n on
\* binary download, at most 3 of them for one chunk.
C35_Terminates ==
  /\ []CallsWithinBounds
  /\ (req[1].pc # "idle") ~> (req[1].pc = "done")

\* a bulk translate request of two chunks has ended after a probe call and one
\* call for each chunk, both failed, the last one rate limited
C35_Witness ==
  \E r \in Requests :
    /\ req[r].path = "bulk" /\ req[r].pc = "done" /\ req[r].status = "complete"
    /\ Len(req[r].chunks) = 2 /\ req[r].calls = 3 /\ req[r].probeCalls = 1
    /\ req[r].fate = <<"failed", "failed">> /\ req[r].lastResult = "rate"

(***************************************************************************)
(* Cache accounting of a bulk translation (Spec)                           *)
(***************************************************************************)
\* C36: a complete bulk translation of a document with n chunks, none of them empty or
\* white space, from counters at zero leaves hits + misses = n + 1 (one lookup for
\* the probe and one per chunk), and hits is the number of chunks whose output came
\* from the cache.
C36_AsStated ==
  \A r \in Requests :
    LET rq == req[r]
        n == Len(rq.chunks)
    IN (/\ rq.path = "bulk" /\ rq.pc = "done" /\ rq.status = "complete"
        /\ Translating(rq)
        /\ \A k \in 1..n : ~WhiteSpaceOnly(rq.chunks[k]))
         => /\ cacheHits + cacheMisses = n + 1
            /\ cacheHits = Cardinality({k \in 1..n : rq.fate[k] = "hit"})

(***************************************************************************)
(* The binary download link of a complete result (SpecFollow)              *)
(***************************************************************************)
\* C37: when bulk translate has ended complete with a binary download link (format pdf
\* or docx), the request of that link to the download endpoint is not rejected as too
\* large.
C37_AsStated ==
  (/\ req[1].pc = "done" /\ req[1].status = "complete" /\ req[1].payload.isBinary
   /\ req[2].pc = "done")
    => req[2].status # "too-large"

\* what the pipeline loads for document id under metadata record k: the stored
\* chunks carry the indices 0..n-1 once each, n the count the record holds
LoadsWholeDocument(k, documentId) ==
  LET cs == FindChunks(documentId)
  IN /\ Len(cs) = document_metadata[k].chunks
     /\ \A p \in 1..Len(cs) : cs[p].chunkIndex = p - 1

\* C38: once the uploads made so far are complete, the chunks the pipeline
\* loads for a document have the pairwise distinct indices 0..n-1, and n is
\* the chunk count of the metadata record the pipeline selects for it, on the
\* bulk route (whichever record of that title it gets) and on the download
\* route (the newest record with chunks)
C38_AsStated ==
  upload.pc # "metadata" =>
    \A documentId \in FileNames :
       /\ \A k \in BulkMetadataMatches(documentId) :
             LoadsWholeDocument(k, documentId)
       /\ DownloadMetadata(documentId) # 0 =>
             LoadsWholeDocument(DownloadMetadata(documentId), documentId)

\* the same, while no file name has been uploaded twice
C38_UploadedOnce ==
  (/\ upload.pc # "metadata"
   /\ \A j, k \in 1..Len(document_metadata) :
        document_metadata[j].title = document_metadata[k].title => j = k)
  => \A documentId \in FileNames :
       /\ \A k \in BulkMetadataMatches(documentId) :
             LoadsWholeDocument(k, documentId)
       /\ DownloadMetadata(documentId) # 0 =>
             LoadsWholeDocument(DownloadMetadata(documentId), documentId)

\* C39: getCacheKey is injective on language pairs: when a lookup computes,
\* for the same normalized text, the key under which the latest translation
\* was stored, the lookup was made for the language pair of that store, also
\* when the tags contain a hyphen
C39_AsStated ==
  (/\ lastOp.op = "get"
   /\ lastOp.stored
   /\ ToLowerCase(Trim(lastOp.text)) = ToLowerCase(Trim(lastOp.storedText))
   /\ getCacheKey(lastOp.text, lastOp.targetLanguage, lastOp.sourceLanguage)
        = getCacheKey(lastOp.storedText, lastOp.storedTarget, lastOp.storedSource))
  => /\ lastOp.sourceLanguage = lastOp.storedSource
     /\ lastOp.targetLanguage = lastOp.storedTarget

\* the same for tags without a hyphen, as the pipeline's own callers pass them
C39_PlainTags ==
  \A text \in CacheTexts, t1 \in CacheTargets \cup UnitLanguages,
     t2 \in CacheTargets \cup UnitLanguages, s1 \in UnitLanguages, s2 \in UnitLanguages :
     getCacheKey(text, t1, s1) = getCacheKey(text, t2, s2) => t1 = t2 /\ s1 = s2

====
